---- MODULE Spec2Model ----
(***************************************************************************)
(* FolderMonitor of the Gemini note processor (src/main.ts): the polling   *)
(* timer, checkFolder / getMatchingFiles / processFiles, the persisted     *)
(* settings and the settings-tab handlers that restart the monitor.        *)
(*                                                                         *)
(* JavaScript runs every handler to its first await without interruption.  *)
(* Each action below is one such run: from an event (timer tick, click,    *)
(* resolution of an awaited promise) to the next suspension point.         *)
(***************************************************************************)
EXTENDS Integers, Sequences, FiniteSets, TLC

\* ------------------------------------------------------------------ bounds
NumFiles == 2
MaxTime == 4
MaxPolls == 2
MaxSpans == 2
MaxLineLen == 4
MaxPieces == 4
MaxDays == 20

\* ------------------------------------------------------- program constants
DefaultCheckInterval == 30
DefaultLastProcessedTime == 0
MinInterval == 5

VARIABLES
    now,            \* the wall clock read by Date.now()
    children,       \* folder.children of the watch folder, in listing order
    ctime,          \* child.stat.ctime of every file (0: not created yet)
    settings,       \* plugin.settings.folderMonitor, and plugin.settings.notebooks
                    \* as its field notebooks (in memory)
    persisted,      \* data.json: what saveData last wrote
    intervalId,     \* FolderMonitor.intervalId (0 stands for null)
    timers,         \* interval timers active in the window
    isProcessing,   \* FolderMonitor.isProcessing
    processedFiles, \* FolderMonitor.processedFiles
    checking,       \* a checkFolder call suspended at `await getMatchingFiles`
    polls,          \* executions of processFiles in flight
    handed,         \* the files handed to processImageFile / processPdfFile so far
    folderExists,   \* getAbstractFileByPath(settings.watchFolder) is a TFolder
    loaded,         \* the plugin is loaded: between onload and onunload
    \* one execution of processTriggersInText
    inputText,              \* its argument `text`: the matches of underlineRegex in it
    triggerActions,         \* settings.triggerActions
    enableTasksIntegration, \* settings.enableTasksIntegration
    tpc,                    \* where the execution stands
    triggers,               \* what detectTriggerWords returned
    processedTasks,         \* the local flag of that name
    triggerResponses,       \* the local array of that name
    ti,                     \* the trigger the for loop is at
    calls,                  \* the calls the for loop awaited: their starts and returns
    tasksAdded,             \* what addTasksToTasksNote returned
    tasksNote,              \* the task records written to the tasks note
    result,                 \* the returned string, as its parts
    \* one call of parseTasksForObsidianTasks
    tasksContent,           \* its argument, as the lines of the text
    parsed,                 \* which version parsed it, and the task records returned
    \* one call of parseNaturalDate
    dateArgument,           \* its argument dateString, as the atoms of the phrase
    today,                  \* window.moment(), as the number of its day
    dateReturned,           \* which version was called, and the string returned
    \* the formatting of the task records
    taskPriorities,         \* settings.taskPriorities
    formattedTasks          \* the formatted task lines, each as its fields in order

monitorVars == <<now, children, ctime, settings, persisted, intervalId, timers,
                 isProcessing, processedFiles, checking, polls, handed, folderExists,
                 loaded>>

pipelineVars == <<inputText, triggerActions, enableTasksIntegration, tpc, triggers,
                  processedTasks, triggerResponses, ti, calls, tasksAdded, tasksNote,
                  result>>

dateVars == <<dateArgument, today, dateReturned>>

formatVars == <<taskPriorities, formattedTasks>>

parseVars == <<tasksContent, parsed, dateVars, formatVars>>

vars == <<monitorVars, pipelineVars, parseVars>>

FileIds == 1..NumFiles
NoCheck == [origin |-> "none", dropped |-> FALSE, noFolder |-> FALSE, files |-> <<>>]

\* --------------------------------------------------------------- file names
Digit(i) == <<"0", "1", "2", "3", "4", "5", "6", "7", "8", "9">>[(i % 10) + 1]

\* TFile.name of file i: S1.png, s.2.PDF, s3.jpg, n4.pdf, ...
FileName(i) ==
    CASE i % 4 = 1 -> <<"S", Digit(i), ".", "p", "n", "g">>
      [] i % 4 = 2 -> <<"s", ".", Digit(i), ".", "P", "D", "F">>
      [] i % 4 = 3 -> <<"s", Digit(i), ".", "j", "p", "g">>
      [] OTHER     -> <<"n", Digit(i), ".", "p", "d", "f">>

\* settings.filePattern values: the default 'scan-*' (shortened) and one
\* using `?`, a character special to regular expressions, and `*`
DefaultPattern == <<"s", "*">>
Patterns == {DefaultPattern, <<"?", ".", "*">>}

\* ------------------------------------------- pattern -> regular expression
SpecialChars == {".", "+", "^", "$", "{", "}", "(", ")", "|", "[", "]", "\\"}

\* variant: the pattern is used as typed, special characters not escaped
EscapeSpecial_None(s) == s

RECURSIVE EscapeSpecial(_)
\* .replace(/[.+^${}()|[\]\\]/g, '\\$&')
EscapeSpecial(s) ==
    IF s = <<>> THEN <<>>
    ELSE (IF Head(s) \in SpecialChars THEN <<"\\", Head(s)>> ELSE <<Head(s)>>)
         \o EscapeSpecial(Tail(s))

RECURSIVE ReplaceStar(_)
\* .replace(/\*/g, '.*')
ReplaceStar(s) ==
    IF s = <<>> THEN <<>>
    ELSE (IF Head(s) = "*" THEN <<".", "*">> ELSE <<Head(s)>>) \o ReplaceStar(Tail(s))

RECURSIVE ReplaceQuestion(_)
\* .replace(/\?/g, '.')
ReplaceQuestion(s) ==
    IF s = <<>> THEN <<>>
    ELSE (IF Head(s) = "?" THEN <<".">> ELSE <<Head(s)>>) \o ReplaceQuestion(Tail(s))

\* the source text of the expression between `^` and `\.(png|pdf)$`
RegexPattern(filePattern) == ReplaceQuestion(ReplaceStar(EscapeSpecial(filePattern)))

RECURSIVE RegexAtoms(_)
\* how RegExp reads that text: `\c` is the character c, `.` any character,
\* an atom followed by `*` repeats
RegexAtoms(src) ==
    IF src = <<>> THEN <<>>
    ELSE LET esc   == Head(src) = "\\" /\ Len(src) >= 2
             width == IF esc THEN 2 ELSE 1
             rest  == SubSeq(src, width + 1, Len(src))
             star  == rest # <<>> /\ Head(rest) = "*"
             atom  == [any  |-> ~esc /\ Head(src) = ".",
                       c    |-> IF esc THEN src[2] ELSE Head(src),
                       star |-> star]
         IN  <<atom>> \o RegexAtoms(IF star THEN Tail(rest) ELSE rest)

\* the 'i' flag, on the letters file names use
Lower(c) ==
    CASE c = "S" -> "s" [] c = "N" -> "n" [] c = "P" -> "p"
      [] c = "D" -> "d" [] c = "F" -> "f" [] c = "G" -> "g"
      [] c = "J" -> "j" [] OTHER -> c

AtomAccepts(atom, c) == atom.any \/ Lower(atom.c) = Lower(c)

RECURSIVE AtomsMatch(_, _)
\* the atoms match the whole of text (backtracking over `*`)
AtomsMatch(atoms, text) ==
    IF atoms = <<>> THEN text = <<>>
    ELSE LET a == Head(atoms)
         IN  IF a.star
             THEN \/ AtomsMatch(Tail(atoms), text)
                  \/ /\ text # <<>>
                     /\ AtomAccepts(a, Head(text))
                     /\ AtomsMatch(atoms, Tail(text))
             ELSE /\ text # <<>>
                  /\ AtomAccepts(a, Head(text))
                  /\ AtomsMatch(Tail(atoms), Tail(text))

LowerSeq(s) == [k \in 1..Len(s) |-> Lower(s[k])]

\* new RegExp(`^${regexPattern}\\.(png|pdf)$`, 'i').test(name)
RegexTest(filePattern, name) ==
    /\ Len(name) >= 4
    /\ LowerSeq(SubSeq(name, Len(name) - 3, Len(name)))
         \in {<<".", "p", "n", "g">>, <<".", "p", "d", "f">>}
    /\ AtomsMatch(RegexAtoms(RegexPattern(filePattern)), SubSeq(name, 1, Len(name) - 4))

\* ---------------------------------------------------------- getMatchingFiles
\* the three `continue` tests of the loop over folder.children, for the
\* settings record s and the dedup set pf in force
IsEligible(s, pf, f) ==
    /\ RegexTest(s.filePattern, FileName(f))
    /\ ~(ctime[f] <= s.lastProcessedTime)
    /\ f \notin pf

RECURSIVE MatchingFrom(_, _, _)
MatchingFrom(s, pf, list) ==
    IF list = <<>> THEN <<>>
    ELSE (IF IsEligible(s, pf, Head(list)) THEN <<Head(list)>> ELSE <<>>)
         \o MatchingFrom(s, pf, Tail(list))

\* variant: the files are returned last child first
getMatchingFiles_Reversed(s, pf) ==
    [j \in 1..Len(MatchingFrom(s, pf, children)) |->
        MatchingFrom(s, pf, children)[Len(MatchingFrom(s, pf, children)) + 1 - j]]

\* getMatchingFiles(folder): the children that pass, in the order of
\* folder.children
getMatchingFiles(s, pf) == MatchingFrom(s, pf, children)

\* ------------------------------------------------------------------ settings
DEFAULT_SETTINGS ==
    [enabled               |-> FALSE,
     filePattern           |-> DefaultPattern,
     deleteAfterProcessing |-> FALSE,
     checkInterval         |-> DefaultCheckInterval,
     useNotebook           |-> FALSE,
     notebookId            |-> "",
     autoIncrementPages    |-> TRUE,
     lastProcessedTime     |-> DefaultLastProcessedTime,
     notebooks             |-> <<>>]

\* loadSettings: { ...DEFAULT_SETTINGS.folderMonitor, ...(loadedData?.folderMonitor || {}) }
loadSettings(loadedData) ==
    [k \in DOMAIN DEFAULT_SETTINGS |->
        IF k \in DOMAIN loadedData THEN loadedData[k] ELSE DEFAULT_SETTINGS[k]]

\* data.json as the plugin can find it at its first load: absent, or holding
\* a folderMonitor object (the file is plain JSON in the vault's plugin
\* folder, synced and edited outside the plugin)
NoData == [k \in {} |-> 0]
InitialData ==
    {NoData, [enabled |-> TRUE], [enabled |-> TRUE, checkInterval |-> 1]}

\* what the user can type into the Check Interval box
IntervalInputs == {4, 5}

\* ---------------------------------------------------------- timer, start, stop
\* window.setInterval hands out an id no active timer has
NewTimerId(active) ==
    CHOOSE i \in 1..(Cardinality(active) + 1) : \A t \in active : t.id # i

\* variant: a stop() that also abandons the poll in flight
stop_Aborts ==
    [intervalId   |-> 0,
     timers       |-> IF intervalId # 0 THEN {t \in timers : t.id # intervalId} ELSE timers,
     polls        |-> <<>>,
     isProcessing |-> FALSE]

\* isRunning(): this.intervalId !== null
isRunning == intervalId # 0

\* stop(): what it leaves of the monitor's fields and the window's timers.
\* It clears the timer and nothing else
stop ==
    [intervalId   |-> 0,
     timers       |-> IF intervalId # 0 THEN {t \in timers : t.id # intervalId} ELSE timers,
     polls        |-> polls,
     isProcessing |-> isProcessing]

\* variant: checkFolder without its isProcessing test
AlreadyProcessing_Never(flag) == FALSE

\* checkFolder's first test: a poll is in progress
AlreadyProcessing(flag) == flag

\* variant: checkFolder without its test of the folder
FolderMissing_Never(exists) == FALSE

\* !folder || !(folder instanceof TFolder)
FolderMissing(exists) == ~exists

\* checkFolder up to its first return or await: about to return because a
\* poll is in progress (dropped) or the watch folder is missing, or suspended at
\* `await this.getMatchingFiles(folder)` with the list it computed
checkFolderIn(origin, s, flag, pf, exists) ==
    IF AlreadyProcessing(flag)
    THEN [origin |-> origin, dropped |-> TRUE, noFolder |-> FALSE, files |-> <<>>]
    ELSE IF FolderMissing(exists)
    THEN [origin |-> origin, dropped |-> FALSE, noFolder |-> TRUE, files |-> <<>>]
    ELSE [origin |-> origin, dropped |-> FALSE, noFolder |-> FALSE,
          files |-> getMatchingFiles(s, pf)]

\* checkFolder with the watch folder as it is
checkFolder(origin, s, flag, pf) == checkFolderIn(origin, s, flag, pf, folderExists)

\* the interval start() passes to window.setInterval
intervalMs(s) == s.checkInterval * 1000

\* start() on a monitor whose plugin settings are s: return when disabled,
\* else stop(), the initial check, then setInterval
\* variant: a start() that does not call stop() first
startIn_NoStop(s, exists) ==
    IF ~s.enabled
    THEN UNCHANGED <<intervalId, timers, checking, polls, isProcessing>>
    ELSE LET id == NewTimerId(timers)
         IN  /\ intervalId' = id
             /\ timers' = timers \cup {[id |-> id, ms |-> intervalMs(s)]}
             /\ UNCHANGED <<polls, isProcessing>>
             /\ checking' = checkFolderIn("start", s, isProcessing, processedFiles, exists)

\* start() on a monitor whose plugin settings are s, the watch folder
\* existing or not
startIn(s, exists) ==
    IF ~s.enabled
    THEN UNCHANGED <<intervalId, timers, checking, polls, isProcessing>>
    ELSE LET id == NewTimerId(stop.timers)
         IN  /\ intervalId' = id
             /\ timers' = stop.timers \cup {[id |-> id, ms |-> intervalMs(s)]}
             /\ polls' = stop.polls
             /\ isProcessing' = stop.isProcessing
             /\ checking' = checkFolderIn("start", s, stop.isProcessing, processedFiles,
                                          exists)

\* start() with the watch folder as it is
start(s) == startIn(s, folderExists)

\* `this.plugin.folderMonitor.stop(); this.plugin.folderMonitor.start();`
stopThenStart(s) ==
    IF s.enabled
    THEN start(s)
    ELSE /\ intervalId' = stop.intervalId
         /\ timers' = stop.timers
         /\ polls' = stop.polls
         /\ isProcessing' = stop.isProcessing
         /\ UNCHANGED checking

\* --------------------------------------------------------------------- clock
\* The clock orders the events that read or stamp it: every stamp and every
\* reading is later than the ones before it (the events are separated by
\* file-system and network waits).  At MaxTime the clock stands still; no
\* file is created from then on.
Date_now == now
ClockAfterReading == IF now < MaxTime THEN now + 1 ELSE now

\* --------------------------------------------------------------- processFiles
\* settings.notebooks.find(n => n.id === settings.notebookId) || null when
\* useNotebook and notebookId are set, as the place of the notebook in
\* settings.notebooks (0 stands for null)
findNotebook(s) ==
    IF s.useNotebook /\ s.notebookId # ""
    THEN LET found == {n \in DOMAIN s.notebooks : s.notebooks[n].id = s.notebookId}
         IN  IF found = {} THEN 0 ELSE CHOOSE n \in found : \A m \in found : n <= m
    ELSE 0

\* notebook?.currentPage || null (0 stands for null)
currentPageOf(s, notebook) ==
    IF notebook = 0 THEN 0 ELSE s.notebooks[notebook].currentPage

\* variant: the page number stepping by two
nextPageNumber_ByTwo(s, notebook, currentPageNumber) ==
    IF notebook # 0 /\ currentPageNumber # 0 /\ s.autoIncrementPages
    THEN currentPageNumber + 2
    ELSE currentPageNumber

\* currentPageNumber after a file was processed:
\* if (notebook && currentPageNumber && settings.autoIncrementPages) currentPageNumber++
nextPageNumber(s, notebook, currentPageNumber) ==
    IF notebook # 0 /\ currentPageNumber # 0 /\ s.autoIncrementPages
    THEN currentPageNumber + 1
    ELSE currentPageNumber

\* notebook.currentPage = currentPageNumber, in the same if statement
withCurrentPage(s, notebook, currentPageNumber) ==
    IF notebook # 0 /\ currentPageNumber # 0 /\ s.autoIncrementPages
    THEN [s EXCEPT !.notebooks[notebook].currentPage = currentPageNumber]
    ELSE s

\* file f is handed to processPdfFile / processImageFile
Hand(f) == handed \cup {f}

RemoveAt(seq, k) == SubSeq(seq, 1, k - 1) \o SubSeq(seq, k + 1, Len(seq))

Without(seq, f) == SelectSeq(seq, LAMBDA x : x # f)

\* variant: the loop ends without lastProcessedTime being set
AfterLoop_NoStamp(k, p) ==
    /\ polls' = [polls EXCEPT ![k] = [p EXCEPT !.pc = "saving"]]
    /\ UNCHANGED <<settings, now, handed>>

\* after the loop: settings.lastProcessedTime = Date.now(), then
\* `await this.plugin.saveSettings()`
AfterLoop(k, p) ==
    /\ settings' = [settings EXCEPT !.lastProcessedTime = Date_now]
    /\ now' = ClockAfterReading
    /\ polls' = [polls EXCEPT ![k] = [p EXCEPT !.pc = "saving"]]
    /\ UNCHANGED handed

\* variant: lastProcessedTime is set after every file, inside the loop
NextIteration_Stamps(k, p) ==
    IF p.i < Len(p.files)
    THEN /\ polls' = [polls EXCEPT ![k] =
                        [p EXCEPT !.i = p.i + 1, !.pc = "processing",
                                  !.pageNumbers = Append(@, p.currentPageNumber)]]
         /\ handed' = Hand(p.files[p.i + 1])
         /\ settings' = [settings EXCEPT !.lastProcessedTime = Date_now]
         /\ now' = ClockAfterReading
    ELSE AfterLoop(k, p)

\* the for statement moving on from file p.i: the next file is handed to
\* processPdfFile / processImageFile, or the loop ends
NextIteration(k, p) ==
    IF p.i < Len(p.files)
    THEN /\ polls' = [polls EXCEPT ![k] =
                        [p EXCEPT !.i = p.i + 1, !.pc = "processing",
                                  !.pageNumbers = Append(@, p.currentPageNumber)]]
         /\ handed' = Hand(p.files[p.i + 1])
         /\ UNCHANGED <<settings, now>>
    ELSE AfterLoop(k, p)

\* variant: a catch around the whole loop, which a failure leaves
FileFailed_Breaks(k, p) == AfterLoop(k, p)

\* the catch block of the loop body: report, and go on with the loop
FileFailed(k, p) == NextIteration(k, p)

\* variant: a checkFolder that sets isProcessing before its early returns
ReturnsEarly_Flagged == isProcessing' = TRUE /\ UNCHANGED <<polls, handed>>

\* the `return` of checkFolder before `this.isProcessing = true`
ReturnsEarly == UNCHANGED <<isProcessing, polls, handed>>

\* checkFolder returns at its isProcessing test or at its test of the watch
\* folder, or is resumed after `await getMatchingFiles`: it returns when
\* files.length === 0, and else sets isProcessing and calls processFiles
CheckFolderResume ==
    /\ checking # NoCheck
    /\ checking' = NoCheck
    /\ IF checking.dropped \/ checking.files = <<>>
       THEN ReturnsEarly
       ELSE /\ Len(polls) < MaxPolls
            /\ isProcessing' = TRUE
            /\ polls' = Append(polls,
                   [files      |-> checking.files,
                    i          |-> 1,
                    pc         |-> "processing",
                    lptAtStart |-> settings.lastProcessedTime,
                    listedAt   |-> now,
                    results    |-> <<>>,
                    notebook   |-> findNotebook(settings),
                    currentPageNumber |-> currentPageOf(settings, findNotebook(settings)),
                    pageNumbers |-> <<currentPageOf(settings, findNotebook(settings))>>])
            /\ handed' = Hand(checking.files[1])
    /\ UNCHANGED <<now, children, ctime, settings, persisted, intervalId, timers,
                   processedFiles>>
    /\ UNCHANGED <<folderExists, loaded, pipelineVars, parseVars>>

\* variant: the file is not recorded
MarkProcessed_Never(pf, f) == pf

\* this.processedFiles.add(file.path)
MarkProcessed(pf, f) == pf \cup {f}

\* processPdfFile / processImageFile of file i returned (ok) or threw
ProcessReturn(k, ok) ==
    /\ checking = NoCheck
    /\ k \in DOMAIN polls
    /\ polls[k].pc = "processing"
    /\ LET p == polls[k]
       IN  IF ok
           THEN /\ processedFiles' = MarkProcessed(processedFiles, p.files[p.i])
                /\ \E page \in {nextPageNumber(settings, p.notebook, p.currentPageNumber)} :
                       /\ polls' = [polls EXCEPT ![k].pc = "post",
                                                 ![k].currentPageNumber = page]
                       /\ settings' = withCurrentPage(settings, p.notebook, page)
                /\ UNCHANGED <<handed, now>>
           ELSE /\ FileFailed(k, [p EXCEPT !.results = Append(@, "failed")])
                /\ UNCHANGED processedFiles
    /\ UNCHANGED <<children, ctime, persisted, intervalId, timers, isProcessing,
                   checking>>
    /\ UNCHANGED <<folderExists, loaded, pipelineVars, parseVars>>

\* how handleProcessedFile can end: the file left the watch folder, the
\* rename failed and was caught inside (move only), or it threw
PostOutcomes ==
    IF settings.deleteAfterProcessing THEN {"removed", "thrown"}
    ELSE {"removed", "kept", "thrown"}

PostReturn(k, outcome) ==
    /\ checking = NoCheck
    /\ k \in DOMAIN polls
    /\ polls[k].pc = "post"
    /\ outcome \in PostOutcomes
    /\ LET p == polls[k]
           q == [p EXCEPT !.results = Append(@, IF outcome = "thrown" THEN "postThrown" ELSE "ok")]
       IN  /\ children' = IF outcome = "removed" THEN Without(children, p.files[p.i])
                          ELSE children
           /\ IF outcome = "thrown"
              THEN FileFailed(k, q)
              ELSE IF p.i < Len(p.files)
                   THEN /\ polls' = [polls EXCEPT ![k] = [q EXCEPT !.pc = "delay"]]
                        /\ UNCHANGED <<settings, handed, now>>
                   ELSE NextIteration(k, q)
    /\ UNCHANGED <<ctime, persisted, intervalId, timers, isProcessing,
                   processedFiles, checking>>
    /\ UNCHANGED <<folderExists, loaded, pipelineVars, parseVars>>

\* the one-second pause between files is over
DelayElapsed(k) ==
    /\ checking = NoCheck
    /\ k \in DOMAIN polls
    /\ polls[k].pc = "delay"
    /\ NextIteration(k, polls[k])
    /\ UNCHANGED <<children, ctime, persisted, intervalId, timers, isProcessing,
                   processedFiles, checking>>
    /\ UNCHANGED <<folderExists, loaded, pipelineVars, parseVars>>

\* the number in the closing notice of processFiles,
\* `Processed ${files.length} files from monitored folder`
ProcessedNotice(p) == Len(p.files)

\* variant: isProcessing reset after the await, not in a finally
isProcessingAfter_NoFinally(ok) == IF ok THEN FALSE ELSE isProcessing

\* isProcessing once checkFolder's try / catch / finally is through, whether
\* processFiles returned (ok) or threw
isProcessingAfter(ok) == FALSE

\* saveSettings returned or threw: processFiles ends, checkFolder's
\* catch / finally run
SaveReturn(k, ok) ==
    /\ checking = NoCheck
    /\ k \in DOMAIN polls
    /\ polls[k].pc = "saving"
    /\ persisted' = IF ok THEN settings ELSE persisted
    /\ polls' = RemoveAt(polls, k)
    /\ isProcessing' = isProcessingAfter(ok)
    /\ UNCHANGED <<now, children, ctime, settings, intervalId, timers,
                   processedFiles, checking, handed>>
    /\ UNCHANGED <<folderExists, loaded, pipelineVars, parseVars>>

\* ---------------------------------------------------------------- environment
\* a file appears in the watch folder; the file system stamps its creation
\* time, and every later reading of the clock is later than that stamp
CreateFile(f) ==
    /\ checking = NoCheck
    /\ ctime[f] = 0
    /\ now < MaxTime
    /\ folderExists
    /\ ctime' = [ctime EXCEPT ![f] = now]
    /\ children' = Append(children, f)
    /\ now' = now + 1
    /\ UNCHANGED <<settings, persisted, intervalId, timers, isProcessing,
                   processedFiles, checking, polls, handed>>
    /\ UNCHANGED <<folderExists, loaded, pipelineVars, parseVars>>

\* the watch folder is renamed or moved away; its files go with it
FolderRemoved ==
    /\ checking = NoCheck
    /\ folderExists
    /\ folderExists' = FALSE
    /\ UNCHANGED <<now, children, ctime, settings, persisted, intervalId, timers,
                   isProcessing, processedFiles, checking, polls, handed>>
    /\ UNCHANGED <<loaded, pipelineVars, parseVars>>

\* the watch folder is back under its configured path
FolderRestored ==
    /\ checking = NoCheck
    /\ ~folderExists
    /\ folderExists' = TRUE
    /\ UNCHANGED <<now, children, ctime, settings, persisted, intervalId, timers,
                   isProcessing, processedFiles, checking, polls, handed>>
    /\ UNCHANGED <<loaded, pipelineVars, parseVars>>

\* the setInterval callback: this.checkFolder()
TimerTick ==
    /\ checking = NoCheck
    /\ timers # {}
    /\ checking' = checkFolder("timer", settings, isProcessing, processedFiles)
    /\ UNCHANGED <<now, children, ctime, settings, persisted, intervalId, timers,
                   isProcessing, processedFiles, polls, handed>>
    /\ UNCHANGED <<folderExists, loaded, pipelineVars, parseVars>>

\* the 'Check monitored folder now' command and the Check Now button
CheckNow ==
    /\ checking = NoCheck
    /\ settings.enabled
    /\ checking' = checkFolder("manual", settings, isProcessing, processedFiles)
    /\ UNCHANGED <<now, children, ctime, settings, persisted, intervalId, timers,
                   isProcessing, processedFiles, polls, handed>>
    /\ UNCHANGED <<folderExists, loaded, pipelineVars, parseVars>>

\* ---------------------------------------------------------------- settings tab
\* the Enable Folder Monitoring toggle
ToggleEnabled ==
    /\ checking = NoCheck
    /\ LET s == [settings EXCEPT !.enabled = ~settings.enabled]
       IN  /\ settings' = s
           /\ persisted' = s
           /\ IF s.enabled
              THEN start(s)
              ELSE /\ intervalId' = stop.intervalId
                   /\ timers' = stop.timers
                   /\ polls' = stop.polls
                   /\ isProcessing' = stop.isProcessing
                   /\ UNCHANGED checking
    /\ UNCHANGED <<now, children, ctime, processedFiles, handed>>
    /\ UNCHANGED <<folderExists, loaded, pipelineVars, parseVars>>

\* the Check Interval box (shown while monitoring is enabled)
SetCheckInterval(value) ==
    /\ checking = NoCheck
    /\ settings.enabled
    /\ IF value >= MinInterval
       THEN LET s == [settings EXCEPT !.checkInterval = value]
            IN  /\ settings' = s
                /\ persisted' = s
                /\ stopThenStart(s)
       ELSE UNCHANGED <<settings, persisted, intervalId, timers, polls, isProcessing,
                        checking>>
    /\ UNCHANGED <<now, children, ctime, processedFiles, handed>>
    /\ UNCHANGED <<folderExists, loaded, pipelineVars, parseVars>>

\* the File Pattern box: value || '*' is stored, the monitor is not restarted
SetFilePattern(value) ==
    /\ checking = NoCheck
    /\ settings.enabled
    /\ value # settings.filePattern
    /\ settings' = [settings EXCEPT !.filePattern = value]
    /\ persisted' = settings'
    /\ UNCHANGED <<now, children, ctime, intervalId, timers, isProcessing,
                   processedFiles, checking, polls, handed>>
    /\ UNCHANGED <<folderExists, loaded, pipelineVars, parseVars>>

\* the After Processing dropdown (move / delete)
SetDeleteAfterProcessing ==
    /\ checking = NoCheck
    /\ settings.enabled
    /\ settings' = [settings EXCEPT !.deleteAfterProcessing = ~@]
    /\ persisted' = settings'
    /\ UNCHANGED <<now, children, ctime, intervalId, timers, isProcessing,
                   processedFiles, checking, polls, handed>>
    /\ UNCHANGED <<folderExists, loaded, pipelineVars, parseVars>>

\* the Watch Folder box (shown while monitoring is enabled): the path typed
\* names the folder (exists) or nothing; saved, then stop() and start()
SetWatchFolder(exists) ==
    /\ checking = NoCheck
    /\ settings.enabled
    /\ exists # folderExists
    /\ folderExists' = exists
    /\ persisted' = settings
    /\ startIn(settings, exists)
    /\ UNCHANGED <<now, children, ctime, settings, processedFiles, handed>>
    /\ UNCHANGED <<loaded, pipelineVars, parseVars>>

\* the Restart Monitor button
RestartMonitor ==
    /\ checking = NoCheck
    /\ settings.enabled
    /\ stopThenStart(settings)
    /\ UNCHANGED <<now, children, ctime, settings, persisted, processedFiles, handed>>
    /\ UNCHANGED <<folderExists, loaded, pipelineVars, parseVars>>

\* --------------------------------------------------------------------- unload
\* onunload: stop(). What is in flight goes on
Unload ==
    /\ checking = NoCheck
    /\ loaded
    /\ loaded' = FALSE
    /\ intervalId' = stop.intervalId
    /\ timers' = stop.timers
    /\ polls' = stop.polls
    /\ isProcessing' = stop.isProcessing
    /\ UNCHANGED <<now, children, ctime, settings, persisted, processedFiles, checking,
                   handed>>
    /\ UNCHANGED <<folderExists, pipelineVars, parseVars>>

\* -------------------------------------------------------------------- restart
\* the application is closed and opened again: whatever was in flight is
\* gone, onload builds a new FolderMonitor over the settings loadSettings
\* merges from data.json, and starts it when enabled
Restart ==
    /\ checking = NoCheck
    /\ LET s == loadSettings(persisted)
       IN  /\ settings' = s
           /\ processedFiles' = {}
           /\ isProcessing' = FALSE
           /\ polls' = <<>>
           /\ IF s.enabled
              THEN /\ intervalId' = 1
                   /\ timers' = {[id |-> 1, ms |-> intervalMs(s)]}
                   /\ checking' = checkFolder("start", s, FALSE, {})
              ELSE /\ intervalId' = 0
                   /\ timers' = {}
                   /\ checking' = NoCheck
    /\ loaded' = TRUE
    /\ UNCHANGED <<now, children, ctime, persisted, handed>>
    /\ UNCHANGED <<folderExists, pipelineVars, parseVars>>

\* ----------------------------------------------------------------------- words
\* A phrase is the sequence of its whitespace-separated words; the empty
\* string is <<>>.  String.prototype.toLowerCase, on the words used here:
toLowerCase(w) ==
    CASE w = "Tasks" -> "tasks"         [] w = "TASKS" -> "tasks"
      [] w = "Todo" -> "todo"           [] w = "Research" -> "research"
      [] w = "Translate" -> "translate" [] w = "TRANSLATE" -> "translate"
      [] w = "INTO" -> "into"           [] w = "French" -> "french"
      [] w = "Related" -> "related"     [] w = "Notes" -> "notes"
      [] w = "HIGH" -> "high"           [] w = "DUE" -> "due"
      [] w = "RESEARCH" -> "research"   [] w = "Today" -> "today"
      [] w = "START" -> "start"         [] w = "SCHEDULED" -> "scheduled"
      [] w = "MEDIUM" -> "medium"       [] w = "LOW" -> "low"
      [] w = "By" -> "by"               [] w = "TODAY" -> "today"
      [] OTHER -> w

\* the least of a non-empty set of positions
First(at) == CHOOSE k \in at : \A j \in at : k <= j

\* Array.prototype.find, given the positions of seq that pass the test:
\* the first element that passes, in a sequence of length 0 or 1
Find(seq, passing) == IF passing = {} THEN <<>> ELSE <<seq[First(passing)]>>

Range(seq) == {seq[j] : j \in DOMAIN seq}

\* ------------------------------------------------------------------ task lines
\* A line of text is the sequence of its atoms: a space, a punctuation
\* character, or a whole word (a maximal run of \w characters).
Punctuation == {"!", "#", "-", ",", ":", "*", "[", "]"}
IsSpace(a) == a = " "
IsWord(a) == ~IsSpace(a) /\ a \notin Punctuation

\* how long the run of atoms of the set class is that s begins with
Leading(s, class) ==
    Cardinality({n \in DOMAIN s : \A k \in 1..n : s[k] \in class})

\* how long the run is that s ends with
Trailing(s, class) ==
    Cardinality({n \in DOMAIN s : \A k \in n..Len(s) : s[k] \in class})

TrimStart(s) == SubSeq(s, 1 + Leading(s, {" "}), Len(s))

TrimEnd(s) == SubSeq(s, 1, Len(s) - Trailing(s, {" "}))

\* String.prototype.trim
trim(s) == TrimEnd(TrimStart(s))

Drop(s, n) == SubSeq(s, n + 1, Len(s))

StartsWith(s, prefix) == Len(s) >= Len(prefix) /\ SubSeq(s, 1, Len(prefix)) = prefix

\* taskText.replace(/^[-*•]\s*/, '')
RemoveBullet(s) ==
    IF s # <<>> /\ Head(s) \in {"-", "*"} THEN TrimStart(Tail(s)) ELSE s

\* how many atoms /^<bangs>|^<WORD>:/i takes from the start of s (0: no match)
PriorityPrefix(s, bangs, word) ==
    IF StartsWith(s, bangs) THEN Len(bangs)
    ELSE IF Len(s) >= 2 /\ toLowerCase(s[1]) = word /\ s[2] = ":" THEN 2
    ELSE 0


\* the priority markers, strongest first, with the glyph each one sets
PriorityMarkers ==
    << [bangs |-> <<"!", "!", "!">>, word |-> "high",   glyph |-> "highest"],
       [bangs |-> <<"!", "!">>,      word |-> "medium", glyph |-> "high"],
       [bangs |-> <<"!">>,           word |-> "low",    glyph |-> "medium"] >>

\* the if / else if chain on /^!!!|^HIGH:/i, /^!!|^MEDIUM:/i, /^!|^LOW:/i:
\* the first marker that matches is removed, once, and the rest trimmed
extractPriority(s) ==
    LET hit == Find(PriorityMarkers,
                    {k \in DOMAIN PriorityMarkers :
                        PriorityPrefix(s, PriorityMarkers[k].bangs, PriorityMarkers[k].word) > 0})
    IN  IF hit = <<>> THEN [priority |-> "", taskText |-> s]
        ELSE [priority |-> hit[1].glyph,
              taskText |-> trim(Drop(s, PriorityPrefix(s, hit[1].bangs, hit[1].word)))]

\* the words parseNaturalDate reads after `next`
Weekdays == {"monday", "tuesday", "wednesday", "thursday", "friday", "saturday", "sunday"}
NextUnits == Weekdays \cup {"week", "month", "year"}

\* parseNaturalDate(dateString): <<>> for null, else the date it names.  A
\* phrase of words and spaces fits none of the formats given to moment (each
\* has `-`, `/` or `,`), so only the relative forms parse.
parseNaturalDate(dateString) ==
    LET normalizedDate == trim([k \in 1..Len(dateString) |-> toLowerCase(dateString[k])])
        words == SelectSeq(normalizedDate, IsWord)
    IN  IF normalizedDate \in {<<"today">>, <<"tonight">>} THEN << <<"today">> >>
        ELSE IF normalizedDate = <<"tomorrow">> THEN << <<"today", "+ 1 day">> >>
        ELSE IF normalizedDate = <<"yesterday">> THEN << <<"today", "- 1 day">> >>
        ELSE IF /\ Len(words) = 2
                /\ words[1] = "next"
                /\ words[2] \in NextUnits
                /\ Len(normalizedDate) >= 3
                /\ normalizedDate[1] = "next"
                /\ \A k \in 2..(Len(normalizedDate) - 1) : IsSpace(normalizedDate[k])
             THEN << <<"next", words[2]>> >>
        ELSE <<>>

\* (?=\s*[-,]|\s*$) at the position after atom e of s
Lookahead(s, e) ==
    LET rest == TrimStart(Drop(s, e))
    IN  rest = <<>> \/ Head(rest) \in {"-", ","}

\* the match of
\*   /\b(?:<roles>)\s+(tomorrow|...|next\s+\w+|[\w\s]+?)(?=\s*[-,]|\s*$)/i
\* that begins at atom p of s, as [from, to, group] in a sequence of length
\* 0 or 1.  After the role word and its spaces the group runs over words and
\* spaces to the first end of a word the lookahead accepts (every named
\* alternative ends there too); when a `-` or `,` follows two or more
\* spaces, the last space is the group.
DateMatchAt(s, roles, p) ==
    LET q    == p + 1 + Len(Drop(s, p)) - Len(TrimStart(Drop(s, p)))
        ends == {e \in q..Len(s) :
                    /\ \A k \in q..e : IsWord(s[k]) \/ IsSpace(s[k])
                    /\ IsWord(s[e])
                    /\ Lookahead(s, e)}
    IN  IF ~(/\ toLowerCase(s[p]) \in roles
             /\ (p = 1 \/ ~IsWord(s[p - 1]))
             /\ p < Len(s)
             /\ IsSpace(s[p + 1]))
        THEN <<>>
        ELSE IF ends # {}
        THEN LET e == CHOOSE x \in ends : \A y \in ends : x <= y
             IN  << [from |-> p, to |-> e, group |-> SubSeq(s, q, e)] >>
        ELSE IF q - p >= 3 /\ q <= Len(s) /\ s[q] \in {"-", ","}
        THEN << [from |-> p, to |-> q - 1, group |-> <<" ">>] >>
        ELSE <<>>

\* taskText.match(<the expression>): the leftmost match
DateMatch(s, roles) ==
    LET hits == UNION {Range(DateMatchAt(s, roles, p)) : p \in DOMAIN s}
    IN  IF hits = {} THEN <<>>
        ELSE << CHOOSE hit \in hits : \A other \in hits : hit.from <= other.from >>

\* String.prototype.replace(sub, ''): the first occurrence of sub is removed
RemoveFirst(s, sub) ==
    LET at == {k \in 1..(Len(s) - Len(sub) + 1) : SubSeq(s, k, k + Len(sub) - 1) = sub}
    IN  IF sub = <<>> \/ at = {} THEN s
        ELSE LET k == CHOOSE x \in at : \A y \in at : x <= y
             IN  SubSeq(s, 1, k - 1) \o Drop(s, k + Len(sub) - 1)

\* the inside of a date block: the expression has matched (hit) and
\* parseNaturalDate has answered (parsedDate, <<>> for null)
dateTaken(t, role, hit, parsedDate) ==
    IF parsedDate = <<>> THEN t
    ELSE [t EXCEPT !.dates = [r \in DOMAIN @ \cup {role} |->
                                  IF r = role THEN parsedDate[1] ELSE @[r]],
                   !.taskText = trim(RemoveFirst(@, SubSeq(@, hit.from, hit.to)))]

\* one of the three `Extract date indicators` blocks: the task text and the
\* dates after it
extractDate(t, role, roles) ==
    LET taken == UNION { {dateTaken(t, role, hit, parsedDate) :
                             parsedDate \in {parseNaturalDate(hit.group)}} :
                         hit \in Range(DateMatch(t.taskText, roles)) }
    IN  IF taken = {} THEN t ELSE CHOOSE out \in taken : TRUE

\* [\w-], the characters of a hashtag after its `#`
IsTagChar(a) == IsWord(a) \/ a = "-"

\* the longest run of tag characters s begins with
TagRun(s) == SubSeq(s, 1, Leading(s, {a \in Range(s) : IsTagChar(a)}))

\* /#[\w-]+/ matches at atom p of s: a `#` before a tag character (a `#`
\* is no tag character, so no match begins inside another)
TagAt(s, p) == s[p] = "#" /\ p < Len(s) /\ IsTagChar(s[p + 1])

\* the positions of the set at, in rising order
Rising(at) ==
    [j \in 1..Cardinality(at) |-> CHOOSE p \in at : Cardinality({x \in at : x < p}) = j - 1]

\* taskText.match(/#[\w-]+/g), as a sequence
tagMatches(s) ==
    LET at == Rising({p \in DOMAIN s : TagAt(s, p)})
    IN  [j \in DOMAIN at |-> <<"#">> \o TagRun(Drop(s, at[j]))]

\* taskText.replace(/#[\w-]+/g, '')
RemoveTags(s) ==
    LET InTag(k) == \E p \in 1..k : TagAt(s, p) /\ k <= p + Len(TagRun(Drop(s, p)))
        kept == Rising({k \in DOMAIN s : ~InTag(k)})
    IN  [j \in DOMAIN kept |-> s[kept[j]]]

\* taskText.replace(/[,\-]+$/, '')
RemoveTrailingPunctuation(s) ==
    SubSeq(s, 1, Len(s) - Trailing(s, {",", "-"}))

\* settings.defaultTaskTags ('#task'), split on commas and given a `#`
defaultTags == << <<"#", "task">> >>

\* the tags, the trailing punctuation and tasks.push, for the task t the
\* steps before left: the task records pushed (none for an empty text)
taskRecord(t, found, taskText) ==
    IF taskText = <<>> THEN <<>>
    ELSE << [text     |-> taskText,
             priority |-> t.priority,
             tags     |-> Range(found) \cup Range(defaultTags),
             dates    |-> t.dates] >>

\* the text without its tags, when tagMatches found some
untag(s, found) == IF found = {} THEN s ELSE trim(RemoveTags(s))

pushTask(t) ==
    CHOOSE tasks \in
        UNION { UNION { {taskRecord(t, found, taskText) :
                            taskText \in {trim(RemoveTrailingPunctuation(untagged))}} :
                        untagged \in {untag(t.taskText, Range(found))} } :
                found \in {tagMatches(t.taskText)} }
        : TRUE

\* let dates: { [key: string]: string } = {}
NoDates(p) == [priority |-> p.priority, taskText |-> p.taskText, dates |-> [r \in {} |-> <<>>]]

\* the body of the for loop of parseTasksForObsidianTasks for one line: the
\* task records it pushes (none for a blank line).  Each step is the set
\* holding the value the step before left (no value after `continue`).
tasksOfLine(line) ==
    LET trimmed   == {trim(line)} \ {<<>>}
        prio      == {extractPriority(taskText) : taskText \in {RemoveBullet(u) : u \in trimmed}}
        dued      == {extractDate(NoDates(t), "due", {"by", "due"}) : t \in prio}
        scheduled == {extractDate(t, "scheduled", {"scheduled", "on"}) : t \in dued}
        started   == {extractDate(t, "start", {"start", "begin", "starting"}) : t \in scheduled}
        pushed    == {pushTask(t) : t \in started}
    IN  IF pushed = {} THEN <<>> ELSE CHOOSE tasks \in pushed : TRUE

RECURSIVE parseTasksForObsidianTasks(_)
\* parseTasksForObsidianTasks(content); content is content.split('\n')
parseTasksForObsidianTasks(content) ==
    IF content = <<>> THEN <<>>
    ELSE tasksOfLine(Head(content)) \o parseTasksForObsidianTasks(Tail(content))

\* ------------------------------------------- task lines, the earlier version
\* trimmed.replace(/^[-*•]\s*\[ \]\s*/, '')
RemoveCheckbox(s) ==
    LET rest == IF s = <<>> THEN <<>> ELSE TrimStart(Tail(s))
    IN  IF s # <<>> /\ Head(s) \in {"-", "*"} /\ StartsWith(rest, <<"[", " ", "]">>)
        THEN TrimStart(Drop(rest, 3))
        ELSE s

\* the keywords of the date markers `DUE:`, `SCHEDULED:`, `START:`
dateKeywords == <<"due", "scheduled", "start">>

\* parseNaturalDate of the earlier version: the same relative forms, then
\* `this <weekday|weekend>`, the ends of the week, month and year and a
\* weekday by itself; its other forms need a number in the phrase
parseNaturalDate_part000(dateString) ==
    LET normalizedDate == trim([k \in 1..Len(dateString) |-> toLowerCase(dateString[k])])
        words == SelectSeq(normalizedDate, IsWord)
    IN  IF parseNaturalDate(dateString) # <<>> THEN parseNaturalDate(dateString)
        ELSE IF /\ Len(words) = 2
                /\ words[1] = "this"
                /\ words[2] \in Weekdays \cup {"weekend"}
                /\ Len(normalizedDate) >= 3
                /\ normalizedDate[1] = "this"
                /\ \A k \in 2..(Len(normalizedDate) - 1) : IsSpace(normalizedDate[k])
             THEN << <<"this", words[2]>> >>
        ELSE IF normalizedDate \in {<<"end", " ", "of", " ", "week">>, <<"eow">>}
             THEN << <<"end of", "week">> >>
        ELSE IF normalizedDate \in {<<"end", " ", "of", " ", "month">>, <<"eom">>}
             THEN << <<"end of", "month">> >>
        ELSE IF normalizedDate \in {<<"end", " ", "of", " ", "year">>, <<"eoy">>}
             THEN << <<"end of", "year">> >>
        ELSE IF Len(normalizedDate) = 1 /\ normalizedDate[1] \in Weekdays
             THEN << <<"on", normalizedDate[1]>> >>
        ELSE <<>>

\* (?=\s*DUE:|\s*SCHEDULED:|\s*START:|$) at the position after atom e of s
MarkerLookahead(s, e) ==
    LET rest == TrimStart(Drop(s, e))
    IN  \/ Drop(s, e) = <<>>
        \/ /\ Len(rest) >= 2
           /\ toLowerCase(rest[1]) \in Range(dateKeywords)
           /\ rest[2] = ":"

\* the match of
\*   /\b<keyword>:\s*([\w\s\d-]+?)(?=\s*DUE:|\s*SCHEDULED:|\s*START:|$)/i
\* that begins at atom p of s, as [from, to, group] in a sequence of length
\* 0 or 1: after the marker and its spaces the group runs over words,
\* spaces and hyphens to the first place the lookahead accepts; when that
\* place is right after the spaces, the last space is the group
MarkerMatchAt(s, keyword, p) ==
    LET q    == p + 2 + Len(Drop(s, p + 1)) - Len(TrimStart(Drop(s, p + 1)))
        ends == {e \in q..Len(s) :
                    /\ \A k \in q..e : IsWord(s[k]) \/ IsSpace(s[k]) \/ s[k] = "-"
                    /\ MarkerLookahead(s, e)}
    IN  IF ~(/\ toLowerCase(s[p]) = keyword
             /\ (p = 1 \/ ~IsWord(s[p - 1]))
             /\ p < Len(s)
             /\ s[p + 1] = ":")
        THEN <<>>
        ELSE IF ends # {}
        THEN LET e == CHOOSE x \in ends : \A y \in ends : x <= y
             IN  << [from |-> p, to |-> e, group |-> SubSeq(s, q, e)] >>
        ELSE IF q - p >= 3 /\ MarkerLookahead(s, q - 1)
        THEN << [from |-> p, to |-> q - 1, group |-> <<" ">>] >>
        ELSE <<>>

\* trimmed.match(regex): the leftmost match
MarkerMatch(s, keyword) ==
    LET hits == UNION {Range(MarkerMatchAt(s, keyword, p)) : p \in DOMAIN s}
    IN  IF hits = {} THEN <<>>
        ELSE << CHOOSE hit \in hits : \A other \in hits : hit.from <= other.from >>

\* the body of the loop over dateKeywords, for one keyword
extractDate_part000(t, keyword) ==
    LET taken == UNION { {dateTaken(t, keyword, hit, parsedDate) :
                             parsedDate \in {parseNaturalDate_part000(trimmed) :
                                                 trimmed \in {trim(hit.group)}}} :
                         hit \in Range(MarkerMatch(t.taskText, keyword)) }
    IN  IF taken = {} THEN t ELSE CHOOSE out \in taken : TRUE

\* settings.defaultTaskTags of the earlier version ('#captured')
defaultTags_part000 == << <<"#", "captured">> >>

\* the tags and tasks.push of the earlier version
taskRecord_part000(t, found, taskText) ==
    IF taskText = <<>> THEN <<>>
    ELSE << [text     |-> taskText,
             priority |-> t.priority,
             tags     |-> Range(found) \cup Range(defaultTags_part000),
             dates    |-> t.dates] >>

pushTask_part000(t) ==
    CHOOSE tasks \in
        UNION { {taskRecord_part000(t, found, taskText) :
                    taskText \in {untag(t.taskText, Range(found))}} :
                found \in {tagMatches(t.taskText)} }
        : TRUE

\* the body of the for loop of the earlier parseTasksForObsidianTasks
tasksOfLine_part000(line) ==
    LET trimmed   == {trim(line)} \ {<<>>}
        prio      == {extractPriority(taskText) : taskText \in {RemoveCheckbox(u) : u \in trimmed}}
        dued      == {extractDate_part000(NoDates(t), dateKeywords[1]) : t \in prio}
        scheduled == {extractDate_part000(t, dateKeywords[2]) : t \in dued}
        started   == {extractDate_part000(t, dateKeywords[3]) : t \in scheduled}
        pushed    == {pushTask_part000(t) : t \in started}
    IN  IF pushed = {} THEN <<>> ELSE CHOOSE tasks \in pushed : TRUE

RECURSIVE parseTasksForObsidianTasks_part000(_)
\* parseTasksForObsidianTasks(content) of the earlier version
parseTasksForObsidianTasks_part000(content) ==
    IF content = <<>> THEN <<>>
    ELSE tasksOfLine_part000(Head(content)) \o parseTasksForObsidianTasks_part000(Tail(content))

\* ------------------------------------------------------ processExtractedTasks
\* trimmed.match(/^-\s*\[\s*\]\s*(.+)/): group 1, in a sequence of length 0
\* or 1
checkboxMatch(s) ==
    LET afterDash  == IF s = <<>> THEN <<>> ELSE TrimStart(Tail(s))
        afterOpen  == IF afterDash = <<>> THEN <<>> ELSE TrimStart(Tail(afterDash))
        afterClose == IF afterOpen = <<>> THEN <<>> ELSE TrimStart(Tail(afterOpen))
    IN  IF /\ s # <<>> /\ Head(s) = "-"
           /\ afterDash # <<>> /\ Head(afterDash) = "["
           /\ afterOpen # <<>> /\ Head(afterOpen) = "]"
           /\ afterClose # <<>>
        THEN <<afterClose>>
        ELSE <<>>

\* the if / else if chain that finds the task text of a trimmed line: a
\* checkbox item, a bullet, any line that is no heading; '' for a heading
lineTaskText(trimmed, checkbox) ==
    IF checkbox # <<>> THEN checkbox[1]
    ELSE IF Head(trimmed) \in {"-", "*"} THEN trim(RemoveBullet(trimmed))
    ELSE IF Head(trimmed) # "#" THEN trimmed
    ELSE <<>>

\* (?=\s*(?:<others>:|$)) at the position after atom e of s
ExtractedLookahead(s, e, others) ==
    LET rest == TrimStart(Drop(s, e))
    IN  \/ rest = <<>>
        \/ /\ Len(rest) >= 2
           /\ toLowerCase(rest[1]) \in others
           /\ rest[2] = ":"

\* the match of
\*   /\b<KEYWORD>:\s*([^,\s]+(?:\s+[^,\s]+)*?)(?=\s*(?:<OTHERS>:|$))/i
\* that begins at atom p of s, as [from, to, group] in a sequence of length
\* 0 or 1.  The group begins at the first atom after the marker's spaces and
\* holds no comma.  Each run of non-space atoms is taken whole and the runs
\* are added one by one until the lookahead accepts; only when no end of a
\* run does (a comma stopped the group) the expression backtracks into the
\* runs, the last one first.
ExtractedMatchAt(s, keyword, others, p) ==
    LET q      == p + 2 + Len(Drop(s, p + 1)) - Len(TrimStart(Drop(s, p + 1)))
        inside == {e \in q..Len(s) : (\A k \in q..e : s[k] # ",") /\ ~IsSpace(s[e])}
        runEnd == {e \in inside : e = Len(s) \/ IsSpace(s[e + 1]) \/ s[e + 1] = ","}
        whole  == {e \in runEnd : ExtractedLookahead(s, e, others)}
        broken == {e \in inside \ runEnd : ExtractedLookahead(s, e, others)}
    IN  IF ~(/\ toLowerCase(s[p]) = keyword
             /\ (p = 1 \/ ~IsWord(s[p - 1]))
             /\ p < Len(s)
             /\ s[p + 1] = ":")
        THEN <<>>
        ELSE IF whole # {}
        THEN << [from |-> p, to |-> First(whole), group |-> SubSeq(s, q, First(whole))] >>
        ELSE IF broken # {}
        THEN LET e == CHOOSE x \in broken : \A y \in broken : y <= x
             IN  << [from |-> p, to |-> e, group |-> SubSeq(s, q, e)] >>
        ELSE <<>>

\* taskText.match(<the expression>): the leftmost match
ExtractedMatch(s, keyword, others) ==
    LET hits == UNION {Range(ExtractedMatchAt(s, keyword, others, p)) : p \in DOMAIN s}
    IN  IF hits = {} THEN <<>>
        ELSE << CHOOSE hit \in hits : \A other \in hits : hit.from <= other.from >>

\* one of the three `Extract and parse date indicators` blocks
extractedDate(t, keyword, others) ==
    LET taken == UNION { {dateTaken(t, keyword, hit, parsedDate) :
                             parsedDate \in {parseNaturalDate(hit.group)}} :
                         hit \in Range(ExtractedMatch(t.taskText, keyword, others)) }
    IN  IF taken = {} THEN t ELSE CHOOSE out \in taken : TRUE

\* what `Build the formatted task` puts into the line: the text, the
\* priority, the dates and the default tags
extractedRecord(t) ==
    [text     |-> t.taskText,
     priority |-> t.priority,
     tags     |-> Range(defaultTags),
     dates    |-> t.dates]

\* the body of the for loop of processExtractedTasks for one line: the
\* tasks it formats (none for a blank line or a heading)
extractedOfLine(line) ==
    LET trimmed   == {trim(line)} \ {<<>>}
        texts     == UNION { {lineTaskText(u, checkbox) : checkbox \in {checkboxMatch(u)}} :
                             u \in trimmed } \ {<<>>}
        prio      == {extractPriority(taskText) : taskText \in texts}
        dued      == {extractedDate(NoDates(t), "due", {"scheduled", "start"}) : t \in prio}
        scheduled == {extractedDate(t, "scheduled", {"due", "start"}) : t \in dued}
        started   == {extractedDate(t, "start", {"due", "scheduled"}) : t \in scheduled}
    IN  IF started = {} THEN <<>> ELSE << extractedRecord(CHOOSE t \in started : TRUE) >>

RECURSIVE processExtractedTasks(_)
\* processExtractedTasks(tasksSection); lines is tasksSection.split('\n')
processExtractedTasks(lines) ==
    IF lines = <<>> THEN <<>>
    ELSE extractedOfLine(Head(lines)) \o processExtractedTasks(Tail(lines))

\* --------------------------------------------------------------- trigger words
LowerPhrase(ph) == [k \in 1..Len(ph) |-> toLowerCase(ph[k])]

\* DEFAULT_TRIGGER_ACTIONS, the entries for the keywords used here
DEFAULT_TRIGGER_ACTIONS ==
    << [keyword |-> <<"Research">>,  action |-> "research",  enabled |-> TRUE],
       [keyword |-> <<"Tasks">>,     action |-> "tasks",     enabled |-> TRUE],
       [keyword |-> <<"Translate">>, action |-> "translate", enabled |-> TRUE],
       [keyword |-> <<"Related">>,   action |-> "related",   enabled |-> TRUE] >>

\* settings.triggerActions as data.json can hold it: the default table, a
\* table with other keywords for the same actions, and a table with
\* disabled entries, each before an enabled entry of the same keyword for
\* another action
ActionTables ==
    { DEFAULT_TRIGGER_ACTIONS,
      << [keyword |-> <<"research">>,  action |-> "research",  enabled |-> TRUE],
         [keyword |-> <<"Todo">>,      action |-> "tasks",     enabled |-> TRUE],
         [keyword |-> <<"TRANSLATE">>, action |-> "translate", enabled |-> TRUE] >>,
      << [keyword |-> <<"Research">>,  action |-> "research",  enabled |-> FALSE],
         [keyword |-> <<"RESEARCH">>,  action |-> "expand",    enabled |-> TRUE],
         [keyword |-> <<"Tasks">>,     action |-> "tasks",     enabled |-> TRUE],
         [keyword |-> <<"Translate">>, action |-> "translate", enabled |-> FALSE],
         [keyword |-> <<"Translate">>, action |-> "rewrite",   enabled |-> TRUE] >> }

\* underlinedText.match(/^Translate\s+(?:to|into)\s+(\w+)$/i): underlined
\* text is made of \w and \s characters only, so the match is on its words
translateMatch(underlinedText) ==
    /\ Len(underlinedText) = 3
    /\ toLowerCase(underlinedText[1]) = "translate"
    /\ toLowerCase(underlinedText[2]) \in {"to", "into"}

\* underlinedText.split(/\s+/)[0]
firstWord(underlinedText) ==
    IF underlinedText = <<>> THEN <<>> ELSE <<underlinedText[1]>>

\* variant: the keyword is compared as written
KeywordMatches_CaseSensitive(a, word) == a.keyword = word /\ a.enabled

\* a.keyword.toLowerCase() === firstWord.toLowerCase() && a.enabled
KeywordMatches(a, word) == LowerPhrase(a.keyword) = LowerPhrase(word) /\ a.enabled

\* variant: the translate pattern is not tested before the first word
triggersOfMatch_FirstWordOnly(table, m) ==
    LET action == Find(table, {k \in DOMAIN table : KeywordMatches(table[k], firstWord(m.underlined))})
    IN  IF action = <<>> THEN <<>>
        ELSE << [trigger |-> firstWord(m.underlined), content |-> m.content,
                 action |-> action[1]] >>

\* the body of the while loop of detectTriggerWords, for one match m of
\* underlineRegex: the triggers it pushes
triggersOfMatch(table, m) ==
    IF translateMatch(m.underlined)
    THEN LET targetLanguage  == m.underlined[3]
             translateAction == Find(table, {k \in DOMAIN table :
                                                 table[k].action = "translate" /\ table[k].enabled})
         IN  IF translateAction = <<>> THEN <<>>
             ELSE << [trigger |-> <<"Translate", "to", targetLanguage>>,
                      content |-> m.content,
                      action  |-> [translateAction[1] EXCEPT
                                     !.keyword = <<"Translate", "to", targetLanguage>>]] >>
    ELSE LET action == Find(table, {k \in DOMAIN table : KeywordMatches(table[k], firstWord(m.underlined))})
         IN  IF action = <<>> THEN <<>>
             ELSE << [trigger |-> firstWord(m.underlined), content |-> m.content,
                      action |-> action[1]] >>

RECURSIVE detectTriggerWords(_, _)
\* detectTriggerWords(text) under settings.triggerActions = table; matches
\* is the sequence of matches underlineRegex.exec finds in the text
detectTriggerWords(table, matches) ==
    IF matches = <<>> THEN <<>>
    ELSE triggersOfMatch(table, Head(matches)) \o detectTriggerWords(table, Tail(matches))

\* ------------------------------------------------------- processTriggersInText
\* trigger contents, as their lines: two tasks; a task and a line that is
\* only a hashtag; a line that is only a priority marker; a plain line
TwoTasks == << <<"a">>, <<"!", "!", " ", "a">> >>
TaskAndTag == << <<"a">>, <<"#", "a">> >>
MarkerOnly == << <<"!", "!", "!">> >>
PlainContent == << <<"a">> >>

\* the matches of underlineRegex a document can hold: the underlined words
\* (match[1] || match[2], trimmed) and the content after them (match[3])
Matches ==
    { [underlined |-> <<"research", "Notes">>,         content |-> PlainContent],
      [underlined |-> <<"Tasks">>,                     content |-> TwoTasks],
      [underlined |-> <<"tasks">>,                     content |-> TaskAndTag],
      [underlined |-> <<"Tasks">>,                     content |-> MarkerOnly],
      [underlined |-> <<"Todo">>,                      content |-> TwoTasks],
      [underlined |-> <<"Translate", "to", "French">>, content |-> PlainContent],
      [underlined |-> <<"translate", "INTO", "French">>, content |-> PlainContent],
      [underlined |-> <<"Translate", "French">>,       content |-> PlainContent],
      [underlined |-> <<"Notes">>,                     content |-> PlainContent],
      [underlined |-> <<"Related">>,                   content |-> PlainContent] }

RECURSIVE SeqsUpTo(_, _)
\* the sequences over S of length at most n
SeqsUpTo(S, n) ==
    IF n = 0 THEN {<<>>}
    ELSE SeqsUpTo(S, n - 1) \cup {Append(q, x) : q \in SeqsUpTo(S, n - 1), x \in S}

\* a document: the matches of underlineRegex in it, and what stands from
\* a `### Tasks` heading to its end ("none" without such a heading)
Document(matches, section) == [matches |-> matches, tasksSection |-> section]

NoDocument == Document(<<>>, "none")

\* the documents with at most n underlined spans
Documents(n) ==
    {Document(m, section) : m \in SeqsUpTo(Matches, n), section \in {"none", "as written"}}

\* an entry of the log of awaited calls
Called(fn, i) == [ev |-> "call", fn |-> fn, of |-> i, outcome |-> ""]
Returned(fn, i, outcome) == [ev |-> "return", fn |-> fn, of |-> i, outcome |-> outcome]

\* trigger.content.split('\n').filter(t => t.trim()).length
ContentLines(content) == Len(SelectSeq(content, LAMBDA line : trim(line) # <<>>))

\* `### Tasks\n✅ ${...} tasks added to [[...]]` for trigger i
TasksPlaceholder(i, trigger, added) ==
    [kind |-> "tasks added", trigger |-> <<"Tasks">>,
     count |-> ContentLines(trigger.content), of |-> i]

\* processTriggerWithGemini(trigger) when requestUrl ends with outcome: the
\* returned string, in a sequence of length 0 (the empty string) or 1
processTriggerWithGemini(i, trigger, outcome) ==
    CASE outcome = "text"   -> << [kind |-> "Results", trigger |-> trigger.trigger,
                                   count |-> 0, of |-> i] >>
      [] outcome = "throws" -> << [kind |-> "Processing Failed", trigger |-> trigger.trigger,
                                   count |-> 0, of |-> i] >>
      [] OTHER              -> <<>>

\* variant: the new response goes to the front of the array
push_Unshift(arr, x) == <<x>> \o arr

\* triggerResponses.push(x)
push(arr, x) == Append(arr, x)

\* trigger.action.keyword === 'Tasks'
IsTasksTrigger(trigger) == trigger.action.keyword = <<"Tasks">>

\* the return statements: text alone, or text, the rule, the heading and
\* the responses joined
Merge(document, responses) ==
    [text    |-> document,
     heading |-> IF responses = <<>> THEN <<>> ELSE <<"## Triggered Actions">>,
     blocks  |-> responses]

RECURSIVE RunLoop(_, _, _, _)
\* the for loop from trigger i on, up to its next await or its end: where
\* it stops, with the responses collected on the way
RunLoop(trigs, i, responses, flag) ==
    IF i > Len(trigs) THEN [tpc |-> "done", ti |-> i, responses |-> responses]
    ELSE IF IsTasksTrigger(trigs[i]) /\ flag.processedTasks
    THEN RunLoop(trigs, i + 1,
                 push(responses, TasksPlaceholder(i, trigs[i], flag.tasksAdded)), flag)
    ELSE IF trigs[i].action.action \in {"taglinks", "related"}
    THEN [tpc |-> "findRelatedNotesByTags", ti |-> i, responses |-> responses]
    ELSE [tpc |-> "processTriggerWithGemini", ti |-> i, responses |-> responses]

\* the execution goes on from trigger i of trigs
Continue(trigs, i, responses, flag, log) ==
    LET halt == RunLoop(trigs, i, responses, flag)
    IN  /\ tpc' = halt.tpc
        /\ ti' = halt.ti
        /\ triggerResponses' = halt.responses
        /\ calls' = IF halt.tpc = "done" THEN log
                    ELSE Append(log, Called(halt.tpc, halt.ti))
        /\ result' = IF halt.tpc = "done" THEN Merge(inputText, halt.responses) ELSE result

\* processTriggersInText from its call to its first await or its return
DetectTriggers ==
    /\ tpc = "called"
    /\ LET trigs == detectTriggerWords(triggerActions, inputText.matches)
           tasksTrigger == Find(trigs, {k \in DOMAIN trigs : IsTasksTrigger(trigs[k])})
       IN  /\ triggers' = trigs
           /\ IF tasksTrigger # <<>> /\ enableTasksIntegration
              THEN /\ tpc' = "addTasksToTasksNote"
                   /\ UNCHANGED <<ti, triggerResponses, calls, result>>
              ELSE Continue(trigs, 1, <<>>, [processedTasks |-> FALSE, tasksAdded |-> 0], calls)
    /\ UNCHANGED <<inputText, triggerActions, enableTasksIntegration, processedTasks,
                   tasksAdded, tasksNote>>
    /\ UNCHANGED <<monitorVars, parseVars>>

\* addTasksToTasksNote(tasksTrigger.content) returned: the number of tasks
\* it parsed when the vault calls went through (ok), 0 when one threw or
\* nothing was parsed
TasksNoteReturn(ok) ==
    /\ tpc = "addTasksToTasksNote"
    /\ LET tasksTrigger == Find(triggers, {k \in DOMAIN triggers : IsTasksTrigger(triggers[k])})[1]
           tasks == parseTasksForObsidianTasks(tasksTrigger.content)
           added == IF ok THEN Len(tasks) ELSE 0
       IN  /\ tasks = <<>> => ok
           /\ tasksNote' = IF ok THEN tasksNote \o tasks ELSE tasksNote
           /\ tasksAdded' = added
           /\ processedTasks' = (added > 0)
           /\ Continue(triggers, 1, <<>>, [processedTasks |-> added > 0, tasksAdded |-> added],
                       calls)
    /\ UNCHANGED <<inputText, triggerActions, enableTasksIntegration, triggers>>
    /\ UNCHANGED <<monitorVars, parseVars>>

\* the request of processTriggerWithGemini for trigger ti ended: with a
\* text, with a response that has no candidate text, or by throwing
GeminiReturn(outcome) ==
    /\ tpc = "processTriggerWithGemini"
    /\ LET response == processTriggerWithGemini(ti, triggers[ti], outcome)
       IN  Continue(triggers, ti + 1,
                    IF response # <<>> THEN push(triggerResponses, response[1])
                    ELSE triggerResponses,
                    [processedTasks |-> processedTasks, tasksAdded |-> tasksAdded],
                    Append(calls, Returned("processTriggerWithGemini", ti, outcome)))
    /\ UNCHANGED <<inputText, triggerActions, enableTasksIntegration, triggers,
                   processedTasks, tasksAdded, tasksNote>>
    /\ UNCHANGED <<monitorVars, parseVars>>

\* findRelatedNotesByTags(detectedTags) returned its text for trigger ti
RelatedReturn ==
    /\ tpc = "findRelatedNotesByTags"
    /\ Continue(triggers, ti + 1,
                push(triggerResponses,
                     [kind |-> "Related Notes", trigger |-> triggers[ti].trigger,
                      count |-> 0, of |-> ti]),
                [processedTasks |-> processedTasks, tasksAdded |-> tasksAdded],
                Append(calls, Returned("findRelatedNotesByTags", ti, "text")))
    /\ UNCHANGED <<inputText, triggerActions, enableTasksIntegration, triggers,
                   processedTasks, tasksAdded, tasksNote>>
    /\ UNCHANGED <<monitorVars, parseVars>>

\* ------------------------------------ processTriggersInText, the earlier version
\* t.action.action === 'tasks'
IsTasksAction(trigger) == trigger.action.action = "tasks"

\* triggers.filter(t => t.action.action !== 'tasks')
otherTriggers(trigs) == SelectSeq(trigs, LAMBDA t : ~IsTasksAction(t))

\* text.replace(/### Tasks\s*[\s\S]*/s, '### Tasks\n✅ Tasks have been added to
\* your inbox.'): everything from the heading on gives way to the note
ReplaceTasksSection(document) ==
    IF document.tasksSection = "none" THEN document
    ELSE [document EXCEPT !.tasksSection = "replaced"]

\* the return statements of the earlier version
Merge_part000(document, trigs, responses) ==
    LET tasksTrigger == Find(trigs, {k \in DOMAIN trigs : IsTasksAction(trigs[k])})
        processedText == IF tasksTrigger # <<>> THEN ReplaceTasksSection(document)
                         ELSE document
    IN  IF otherTriggers(trigs) = <<>> THEN Merge(processedText, <<>>)
        ELSE IF responses # <<>> THEN Merge(processedText, responses)
        ELSE Merge(document, <<>>)

\* the earlier execution goes on at trigger i of otherTriggers
Continue_part000(trigs, i, responses, log) ==
    LET over == i > Len(otherTriggers(trigs))
    IN  /\ tpc' = IF over THEN "done" ELSE "processTriggerWithGemini"
        /\ ti' = i
        /\ triggerResponses' = responses
        /\ calls' = IF over THEN log ELSE Append(log, Called("processTriggerWithGemini", i))
        /\ result' = IF over THEN Merge_part000(inputText, trigs, responses) ELSE result

\* the earlier processTriggersInText from its call to its first await or
\* its return
DetectTriggers_part000 ==
    /\ tpc = "called"
    /\ LET trigs == detectTriggerWords(triggerActions, inputText.matches)
       IN  /\ triggers' = trigs
           /\ IF Find(trigs, {k \in DOMAIN trigs : IsTasksAction(trigs[k])}) # <<>> /\ enableTasksIntegration
              THEN /\ tpc' = "addTasksToTasksNote"
                   /\ UNCHANGED <<ti, triggerResponses, calls, result>>
              ELSE Continue_part000(trigs, 1, <<>>, calls)
    /\ UNCHANGED <<inputText, triggerActions, enableTasksIntegration, processedTasks,
                   tasksAdded, tasksNote>>
    /\ UNCHANGED <<monitorVars, parseVars>>

\* the earlier addTasksToTasksNote(tasksTrigger.content) returned
TasksNoteReturn_part000(ok) ==
    /\ tpc = "addTasksToTasksNote"
    /\ LET tasksTrigger == Find(triggers, {k \in DOMAIN triggers : IsTasksAction(triggers[k])})[1]
           tasks == parseTasksForObsidianTasks_part000(tasksTrigger.content)
       IN  /\ tasks = <<>> => ok
           /\ tasksNote' = IF ok THEN tasksNote \o tasks ELSE tasksNote
           /\ tasksAdded' = IF ok THEN Len(tasks) ELSE 0
    /\ Continue_part000(triggers, 1, <<>>, calls)
    /\ UNCHANGED <<inputText, triggerActions, enableTasksIntegration, triggers,
                   processedTasks>>
    /\ UNCHANGED <<monitorVars, parseVars>>

\* the request of the earlier processTriggerWithGemini for trigger ti of
\* otherTriggers ended
GeminiReturn_part000(outcome) ==
    /\ tpc = "processTriggerWithGemini"
    /\ LET response == processTriggerWithGemini(ti, otherTriggers(triggers)[ti], outcome)
       IN  Continue_part000(triggers, ti + 1,
                            IF response # <<>> THEN push(triggerResponses, response[1])
                            ELSE triggerResponses,
                            Append(calls, Returned("processTriggerWithGemini", ti, outcome)))
    /\ UNCHANGED <<inputText, triggerActions, enableTasksIntegration, triggers,
                   processedTasks, tasksAdded, tasksNote>>
    /\ UNCHANGED <<monitorVars, parseVars>>

\* ------------------------------------------------ parseTasksForObsidianTasks
\* the atoms task lines are written with
Atoms == {" ", "!", "#", "-", ":", "a", "DUE", "today"}

NotParsed == [by |-> "", tasks |-> <<>>]

\* parseTasksForObsidianTasks(content) returns
ParseTasks ==
    /\ parsed = NotParsed
    /\ tasksContent # <<>>
    /\ parsed' = [by |-> "src/main.ts", tasks |-> parseTasksForObsidianTasks(tasksContent)]
    /\ UNCHANGED <<tasksContent, dateVars, formatVars, monitorVars, pipelineVars>>

\* the earlier parseTasksForObsidianTasks(content) returns
ParseTasks_part000 ==
    /\ parsed = NotParsed
    /\ tasksContent # <<>>
    /\ parsed' = [by |-> "src/unnamed/part_000",
                  tasks |-> parseTasksForObsidianTasks_part000(tasksContent)]
    /\ UNCHANGED <<tasksContent, dateVars, formatVars, monitorVars, pipelineVars>>

\* ----------------------------------------------------- formatted task lines
\* A formatted line is the sequence of the fields appended to it.
Field(name, value) == [field |-> name, value |-> value]

\* ` <glyph> ${dates[role]}` when the task has a date for the role
DateField(dates, role) ==
    IF role \in DOMAIN dates THEN << Field(role, dates[role]) >> ELSE <<>>

\* formatTaskForObsidianTasks(task)
formatTaskForObsidianTasks(task, priorities) ==
    << Field("checkbox", <<>>) >>
        \o (IF priorities /\ task.priority # "" THEN << Field("priority", task.priority) >>
            ELSE <<>>)
        \o << Field("text", task.text) >>
        \o DateField(task.dates, "due")
        \o DateField(task.dates, "scheduled")
        \o DateField(task.dates, "start")
        \o << Field("created", <<"today">>) >>
        \o (IF task.tags # {} THEN << Field("tags", task.tags) >> ELSE <<>>)

\* formatTaskForObsidianTasks(task) of the earlier version
formatTaskForObsidianTasks_part000(task, priorities) ==
    << Field("checkbox", <<>>) >>
        \o (IF priorities /\ task.priority # "" THEN << Field("priority", task.priority) >>
            ELSE <<>>)
        \o << Field("text", task.text) >>
        \o (IF task.tags # {} THEN << Field("tags", task.tags) >> ELSE <<>>)
        \o DateField(task.dates, "start")
        \o DateField(task.dates, "scheduled")
        \o DateField(task.dates, "due")

\* `Build the formatted task with Obsidian Tasks syntax` in
\* processExtractedTasks; priority is '' or a glyph and a space
formattedTask(t) ==
    << Field("checkbox", <<>>) >>
        \o (IF t.priority # "" THEN << Field("priority", t.priority) >> ELSE <<>>)
        \o << Field("text", t.text) >>
        \o DateField(t.dates, "due")
        \o DateField(t.dates, "scheduled")
        \o DateField(t.dates, "start")
        \o << Field("created", <<"today">>) >>
        \o (IF defaultTags # <<>> THEN << Field("tags", t.tags) >> ELSE <<>>)

\* no task has been formatted; settings.taskPriorities has its default
NoFormat == taskPriorities = TRUE /\ formattedTasks = <<>>

\* processExtractedTasks(tasksSection) returns, for a section that is not
\* empty and does not read 'None identified.'
ProcessExtractedTasks ==
    /\ parsed = NotParsed
    /\ tasksContent # <<>>
    /\ \E records \in {processExtractedTasks(tasksContent)} :
          /\ parsed' = [by |-> "processExtractedTasks", tasks |-> records]
          /\ formattedTasks' = [j \in DOMAIN records |-> formattedTask(records[j])]
    /\ UNCHANGED <<tasksContent, taskPriorities, dateVars, monitorVars, pipelineVars>>

\* tasks.map(task => this.formatTaskForObsidianTasks(task)) in
\* addTasksToTasksNote, reached when some task was parsed
FormatTasks ==
    /\ parsed.by = "src/main.ts"
    /\ parsed.tasks # <<>>
    /\ formattedTasks = <<>>
    /\ formattedTasks' = [j \in DOMAIN parsed.tasks |->
                              formatTaskForObsidianTasks(parsed.tasks[j], taskPriorities)]
    /\ UNCHANGED <<tasksContent, parsed, taskPriorities, dateVars, monitorVars, pipelineVars>>

\* the same in the earlier version
FormatTasks_part000 ==
    /\ parsed.by = "src/unnamed/part_000"
    /\ parsed.tasks # <<>>
    /\ formattedTasks = <<>>
    /\ formattedTasks' = [j \in DOMAIN parsed.tasks |->
                              formatTaskForObsidianTasks_part000(parsed.tasks[j], taskPriorities)]
    /\ UNCHANGED <<tasksContent, parsed, taskPriorities, dateVars, monitorVars, pipelineVars>>

\* the pieces task lines with date phrases are written with
Tokens ==
    { <<"a">>, <<"today">>, <<"due">>, <<"on">>, <<"DUE", ":">>, <<"START", ":">>,
      <<",">>, <<"#", "a">>, <<"!">> }

RECURSIVE Join(_)
\* the line that holds the given pieces with one space between them
Join(pieces) ==
    IF pieces = <<>> THEN <<>>
    ELSE IF Len(pieces) = 1 THEN pieces[1]
    ELSE pieces[1] \o <<" ">> \o Join(Tail(pieces))

\* ---------------------------------------------------------- parseNaturalDate
\* A moment is the number of its day; day 0 is Sunday 2023-12-31, so that
\* day 71 is Monday 2024-03-11.
IsLeap(y) == y % 4 = 0 /\ (y % 100 # 0 \/ y % 400 = 0)

\* the days of month m (1..12) of year y
MonthLen(y, m) ==
    IF m = 2 THEN (IF IsLeap(y) THEN 29 ELSE 28)
    ELSE IF m \in {4, 6, 9, 11} THEN 30
    ELSE 31

RECURSIVE DaysBefore(_, _)
\* the days of year y before its month m
DaysBefore(y, m) == IF m = 1 THEN 0 ELSE DaysBefore(y, m - 1) + MonthLen(y, m - 1)

YearLen(y) == IF IsLeap(y) THEN 366 ELSE 365

RECURSIVE YearStart(_)
\* the number of the day before 1 January of year y
YearStart(y) == IF y = 2024 THEN 0 ELSE YearStart(y - 1) + YearLen(y - 1)

\* the number of the day with the calendar date y-m-d
DayOf(y, m, d) ==
    IF y = 2023 THEN d - 31 ELSE YearStart(y) + DaysBefore(y, m) + d

RECURSIVE MonthOf(_, _, _)
\* the month and day of the n-th day of year y, counting from month m
MonthOf(y, m, n) ==
    IF n <= MonthLen(y, m) THEN <<y, m, n>> ELSE MonthOf(y, m + 1, n - MonthLen(y, m))

RECURSIVE DateOf(_, _)
\* the n-th day counted from 1 January of year y
DateOf(y, n) == IF n <= YearLen(y) THEN MonthOf(y, 1, n) ELSE DateOf(y + 1, n - YearLen(y))

\* moment.format('YYYY-MM-DD'), as <<year, month, day>>
format(d) == IF d <= 0 THEN <<2023, 12, 31 + d>> ELSE DateOf(2024, d)

\* moment.day(): 0 for Sunday .. 6 for Saturday
day(d) == d % 7

\* moment.day(n): the day n of the Sunday-to-Saturday week d lies in
setDay(d, n) == d - day(d) + n

\* ['sunday', ..., 'saturday'].indexOf(unit)
daysOfWeek == <<"sunday", "monday", "tuesday", "wednesday", "thursday", "friday", "saturday">>
indexOf(unit) == (CHOOSE k \in DOMAIN daysOfWeek : daysOfWeek[k] = unit) - 1

\* variant: the week is added only after the target day has passed
passed_Strictly(d, targetDay) == day(d) > targetDay

\* nextDate.day() >= targetDay
passed(d, targetDay) == day(d) >= targetDay

\* the body of `if ([...].includes(unit))`: the day `next <weekday>` names
nextWeekday(d, targetDay) ==
    setDay(IF passed(d, targetDay) THEN d + 7 ELSE d, targetDay)

\* moment.add(n, 'month'): the same day of the later month, or its last day
addMonths(d, n) ==
    LET ymd   == format(d)
        month == ((ymd[2] - 1 + n) % 12) + 1
        year  == ymd[1] + ((ymd[2] - 1 + n) \div 12)
    IN  DayOf(year, month, IF ymd[3] > MonthLen(year, month) THEN MonthLen(year, month) ELSE ymd[3])

\* the date the form read from the phrase names on the day d, formatted
dateOfForm(form, d) ==
    CASE form = <<"today">>           -> format(d)
      [] form = <<"today", "+ 1 day">> -> format(d + 1)
      [] form = <<"today", "- 1 day">> -> format(d - 1)
      [] form[1] = "next" /\ form[2] \in Weekdays -> format(nextWeekday(d, indexOf(form[2])))
      [] form = <<"next", "week">>    -> format(d + 7)
      [] form = <<"next", "month">>   -> format(addMonths(d, 1))
      [] form = <<"next", "year">>    -> format(addMonths(d, 12))

\* a weekday by itself: that day of this week, or of the next when it is
\* before today
comingWeekday(d, targetDay) ==
    IF setDay(d, targetDay) < d THEN setDay(d, targetDay) + 7 ELSE setDay(d, targetDay)

\* the same for the forms of the earlier version
dateOfForm_part000(form, d) ==
    CASE form[1] = "this" /\ form[2] = "weekend" -> format(setDay(d, 6))
      [] form[1] = "this" /\ form[2] # "weekend" -> format(setDay(d, indexOf(form[2])))
      [] form = <<"end of", "week">>  -> format(setDay(d, 6))
      [] form = <<"end of", "month">> -> <<format(d)[1], format(d)[2], MonthLen(format(d)[1], format(d)[2])>>
      [] form = <<"end of", "year">>  -> <<format(d)[1], 12, 31>>
      [] form[1] = "on"               -> format(comingWeekday(d, indexOf(form[2])))
      [] OTHER                        -> dateOfForm(form, d)

\* the phrases parseNaturalDate is called with
DatePhrases ==
    {<<"next", " ", unit>> : unit \in NextUnits}
        \cup {<<"today">>, <<"tomorrow">>, <<"yesterday">>, <<"Today">>, <<"next">>,
              <<"next", " ", "a">>, <<"monday">>, <<"this", " ", "friday">>, <<"eow">>,
              <<"eom">>, <<"eoy">>, <<"this", " ", "weekend">>}

\* the days parseNaturalDate is called on: Sunday 2024-02-25 and the
\* MaxDays days after it
Days == 56..(56 + MaxDays)

NotCalled == [by |-> "", date |-> <<>>]

\* no call of parseNaturalDate is under way
NoDateCall == dateArgument = <<>> /\ today = 0 /\ dateReturned = NotCalled

\* parseNaturalDate(dateString) returns: null (<<>>) or the formatted date
ParseNaturalDate ==
    /\ dateReturned = NotCalled
    /\ dateArgument # <<>>
    /\ \E form \in {parseNaturalDate(dateArgument)} :
          dateReturned' = [by   |-> "src/main.ts",
                         date |-> IF form = <<>> THEN <<>> ELSE dateOfForm(form[1], today)]
    /\ UNCHANGED <<dateArgument, today, tasksContent, parsed, formatVars, monitorVars, pipelineVars>>

\* parseNaturalDate(dateString) of the earlier version returns
ParseNaturalDate_part000 ==
    /\ dateReturned = NotCalled
    /\ dateArgument # <<>>
    /\ \E form \in {parseNaturalDate_part000(dateArgument)} :
          dateReturned' = [by   |-> "src/unnamed/part_000",
                         date |-> IF form = <<>> THEN <<>>
                                  ELSE dateOfForm_part000(form[1], today)]
    /\ UNCHANGED <<dateArgument, today, tasksContent, parsed, formatVars, monitorVars, pipelineVars>>

\* no call of parseTasksForObsidianTasks is under way
NoParse == tasksContent = <<>> /\ parsed = NotParsed /\ NoDateCall /\ NoFormat

\* no execution of processTriggersInText is under way
NoRun ==
    /\ inputText = NoDocument
    /\ triggerActions = DEFAULT_TRIGGER_ACTIONS
    /\ enableTasksIntegration = FALSE
    /\ tpc = "idle"
    /\ triggers = <<>>
    /\ processedTasks = FALSE
    /\ triggerResponses = <<>>
    /\ ti = 0
    /\ calls = <<>>
    /\ tasksAdded = 0
    /\ tasksNote = <<>>
    /\ result = Merge(NoDocument, <<>>)

\* the folder monitor is off: nothing is loaded, listed or scheduled
MonitorOff ==
    /\ now = 1
    /\ children = <<>>
    /\ ctime = [f \in FileIds |-> 0]
    /\ persisted = NoData
    /\ settings = loadSettings(NoData)
    /\ processedFiles = {}
    /\ isProcessing = FALSE
    /\ polls = <<>>
    /\ handed = {}
    /\ folderExists = TRUE
    /\ loaded = TRUE
    /\ intervalId = 0
    /\ timers = {}
    /\ checking = NoCheck

\* ------------------------------------------------------------------------ spec
\* onload over the data.json in persisted and an empty watch folder
FirstLoad ==
    /\ NoRun
    /\ NoParse
    /\ now = 1
    /\ children = <<>>
    /\ ctime = [f \in FileIds |-> 0]
    /\ settings = loadSettings(persisted)
    /\ processedFiles = {}
    /\ isProcessing = FALSE
    /\ polls = <<>>
    /\ handed = {}
    /\ folderExists = TRUE
    /\ loaded = TRUE
    /\ IF settings.enabled
       THEN /\ intervalId = 1
            /\ timers = {[id |-> 1, ms |-> intervalMs(settings)]}
            /\ checking = [origin |-> "start", dropped |-> FALSE, noFolder |-> FALSE,
                            files |-> <<>>]
       ELSE /\ intervalId = 0
            /\ timers = {}
            /\ checking = NoCheck

\* the plugin has loaded for the first time, over an empty watch folder
Init ==
    /\ persisted \in InitialData
    /\ FirstLoad

PollStep ==
    \E k \in 1..MaxPolls :
        \/ \E ok \in BOOLEAN : ProcessReturn(k, ok)
        \/ \E outcome \in {"removed", "kept", "thrown"} : PostReturn(k, outcome)
        \/ DelayElapsed(k)
        \/ \E ok \in BOOLEAN : SaveReturn(k, ok)

Next ==
    \/ \E f \in FileIds : CreateFile(f)
    \/ TimerTick
    \/ CheckNow
    \/ CheckFolderResume
    \/ PollStep
    \/ ToggleEnabled
    \/ \E value \in IntervalInputs : SetCheckInterval(value)
    \/ \E value \in Patterns : SetFilePattern(value)
    \/ SetDeleteAfterProcessing
    \/ RestartMonitor
    \/ Restart

Spec == Init /\ [][Next]_vars

\* the monitor while the watch folder comes and goes under its configured
\* path: the timer, the ribbon command and the enable toggle, with the
\* settings otherwise left as loaded
FolderNext ==
    \/ \E f \in FileIds : CreateFile(f)
    \/ FolderRemoved
    \/ FolderRestored
    \/ TimerTick
    \/ CheckNow
    \/ CheckFolderResume
    \/ PollStep
    \/ ToggleEnabled

FolderSpec == Init /\ [][FolderNext]_vars

\* the monitor through its life: onload, the settings that start and stop
\* it, the restart button, onunload; the settings tab and the command are
\* there while the plugin is loaded
LifeNext ==
    \/ \E f \in FileIds : CreateFile(f)
    \/ TimerTick
    \/ CheckFolderResume
    \/ PollStep
    \/ loaded /\ CheckNow
    \/ loaded /\ ToggleEnabled
    \/ loaded /\ \E value \in IntervalInputs : SetCheckInterval(value)
    \/ loaded /\ \E exists \in BOOLEAN : SetWatchFolder(exists)
    \/ loaded /\ RestartMonitor
    \/ Unload
    \/ Restart

LifeSpec == Init /\ [][LifeNext]_vars

\* data.json of a vault whose monitor is enabled and set to use the notebook
\* "n1", with auto-increment on or off: the notebook is there at page 1, is
\* there at page 2 behind another notebook, or has been removed
NotebookData ==
    {[enabled |-> TRUE, useNotebook |-> TRUE, notebookId |-> "n1",
      autoIncrementPages |-> auto, notebooks |-> notebooks] :
        auto \in BOOLEAN,
        notebooks \in {<<[id |-> "n1", currentPage |-> 1]>>,
                       <<[id |-> "n0", currentPage |-> 1], [id |-> "n1", currentPage |-> 2]>>,
                       <<[id |-> "n0", currentPage |-> 1]>>}}

PageInit ==
    /\ persisted \in NotebookData
    /\ FirstLoad

\* the monitor polling into a notebook
PageNext ==
    \/ \E f \in FileIds : CreateFile(f)
    \/ TimerTick
    \/ CheckNow
    \/ CheckFolderResume
    \/ PollStep

PageSpec == PageInit /\ [][PageNext]_vars

\* processTriggersInText(text) has just been called: on a document with at
\* most MaxSpans underlined spans, under one of the action tables, with the
\* tasks integration on or off
TriggerInit ==
    /\ MonitorOff
    /\ NoParse
    /\ inputText \in Documents(MaxSpans)
    /\ triggerActions \in ActionTables
    /\ enableTasksIntegration \in BOOLEAN
    /\ tpc = "called"
    /\ triggers = <<>>
    /\ processedTasks = FALSE
    /\ triggerResponses = <<>>
    /\ ti = 0
    /\ calls = <<>>
    /\ tasksAdded = 0
    /\ tasksNote = <<>>
    /\ result = Merge(NoDocument, <<>>)

TriggerNext ==
    \/ DetectTriggers
    \/ \E ok \in BOOLEAN : TasksNoteReturn(ok)
    \/ \E outcome \in {"text", "unusable", "throws"} : GeminiReturn(outcome)
    \/ RelatedReturn

TriggerSpec == TriggerInit /\ [][TriggerNext]_vars

\* the earlier version's table has no Related entry
ActionTables_part000 ==
    {SelectSeq(table, LAMBDA a : a.action # "related") : table \in ActionTables}

\* the earlier processTriggersInText(text) has just been called
TriggerInit_part000 ==
    /\ MonitorOff
    /\ NoParse
    /\ inputText \in Documents(MaxSpans)
    /\ triggerActions \in ActionTables_part000
    /\ enableTasksIntegration \in BOOLEAN
    /\ tpc = "called"
    /\ triggers = <<>>
    /\ processedTasks = FALSE
    /\ triggerResponses = <<>>
    /\ ti = 0
    /\ calls = <<>>
    /\ tasksAdded = 0
    /\ tasksNote = <<>>
    /\ result = Merge(NoDocument, <<>>)

TriggerNext_part000 ==
    \/ DetectTriggers_part000
    \/ \E ok \in BOOLEAN : TasksNoteReturn_part000(ok)
    \/ \E outcome \in {"text", "unusable", "throws"} : GeminiReturn_part000(outcome)

TriggerSpec_part000 == TriggerInit_part000 /\ [][TriggerNext_part000]_vars

\* parseTasksForObsidianTasks is about to be called on one line of at most
\* MaxLineLen atoms
ParseInit ==
    /\ MonitorOff
    /\ NoRun
    /\ tasksContent \in {<<line>> : line \in SeqsUpTo(Atoms, MaxLineLen)}
    /\ parsed = NotParsed
    /\ NoDateCall
    /\ NoFormat

ParseNext ==
    \/ ParseTasks
    \/ ParseTasks_part000

ParseSpec == ParseInit /\ [][ParseNext]_vars

\* one of the two task code paths of src/main.ts is about to be called on
\* one line of at most MaxPieces pieces
DateInit ==
    /\ MonitorOff
    /\ NoRun
    /\ tasksContent \in {<<Join(pieces)>> : pieces \in SeqsUpTo(Tokens, MaxPieces) \ {<<>>}}
    /\ parsed = NotParsed
    /\ NoDateCall
    /\ NoFormat

DateNext ==
    \/ ParseTasks
    \/ ProcessExtractedTasks

DateSpec == DateInit /\ [][DateNext]_vars

\* parseNaturalDate is about to be called with one of DatePhrases on one of
\* Days
CalendarInit ==
    /\ MonitorOff
    /\ NoRun
    /\ tasksContent = <<>>
    /\ parsed = NotParsed
    /\ dateArgument \in DatePhrases
    /\ today \in Days
    /\ dateReturned = NotCalled
    /\ NoFormat

CalendarNext ==
    \/ ParseNaturalDate
    \/ ParseNaturalDate_part000

CalendarSpec == CalendarInit /\ [][CalendarNext]_vars

\* a task line of fewer than MaxPieces pieces is about to be parsed and
\* formatted, with priorities shown or not
FormatInit ==
    /\ MonitorOff
    /\ NoRun
    /\ tasksContent \in {<<Join(pieces)>> : pieces \in SeqsUpTo(Tokens, MaxPieces - 1) \ {<<>>}}
    /\ parsed = NotParsed
    /\ NoDateCall
    /\ taskPriorities \in BOOLEAN
    /\ formattedTasks = <<>>

FormatNext ==
    \/ ParseTasks
    \/ ParseTasks_part000
    \/ ProcessExtractedTasks
    \/ FormatTasks
    \/ FormatTasks_part000

FormatSpec == FormatInit /\ [][FormatNext]_vars

\* ===================================================================== claims

RECURSIVE GlobMatch(_, _)
\* the glob syntax of the monitor: `*` any run of characters, `?` exactly one
\* character, any other character itself (letters without regard to case)
GlobMatch(pat, text) ==
    IF pat = <<>> THEN text = <<>>
    ELSE CASE Head(pat) = "*" ->
                \/ GlobMatch(Tail(pat), text)
                \/ text # <<>> /\ GlobMatch(pat, Tail(text))
           [] Head(pat) = "?" ->
                text # <<>> /\ GlobMatch(Tail(pat), Tail(text))
           [] OTHER ->
                /\ text # <<>>
                /\ Lower(Head(pat)) = Lower(Head(text))
                /\ GlobMatch(Tail(pat), Tail(text))

\* name is <stem>.<ext> with ext png or pdf in any case and stem matching
NameMatches(pat, name) ==
    \E d \in 1..Len(name) :
        /\ name[d] = "."
        /\ LowerSeq(SubSeq(name, d + 1, Len(name))) \in {<<"p", "n", "g">>, <<"p", "d", "f">>}
        /\ GlobMatch(pat, SubSeq(name, 1, d - 1))

\* the names the pattern test is tried on: those of the files, and two more
NameIds == 1..(NumFiles + 2)

\* the expression built from a pattern accepts the names the glob accepts
RegexIsGlob ==
    \A i \in NameIds : \A pat \in Patterns :
        RegexTest(pat, FileName(i)) <=> NameMatches(pat, FileName(i))

\* C1: getMatchingFiles returns a file of the watch folder if and only if
\* its name matches the configured pattern with an accepted extension, its
\* creation time is greater than lastProcessedTime and it is not in
\* processedFiles; the pattern test is the glob match on every name.
C1_EligibleIff ==
    /\ LET listed == Range(getMatchingFiles(settings, processedFiles))
       IN  \A f \in FileIds :
              f \in listed
              <=> /\ f \in Range(children)
                  /\ NameMatches(settings.filePattern, FileName(f))
                  /\ ctime[f] > settings.lastProcessedTime
                  /\ f \notin processedFiles
    /\ RegexIsGlob

\* a listing that admits one file and leaves out another that matches and is
\* new, for being in the dedup set alone
C1_Witness ==
    \E f, g \in Range(children) :
        /\ f \in Range(getMatchingFiles(settings, processedFiles))
        /\ g \notin Range(getMatchingFiles(settings, processedFiles))
        /\ NameMatches(settings.filePattern, FileName(g))
        /\ ctime[g] > settings.lastProcessedTime
        /\ g \in processedFiles

\* C2: polls are single-flight: a checkFolder call that begins while a poll
\* is in progress is dropped, so no two executions of processFiles overlap
\* and no call waits behind a running poll.
C2_SingleFlight ==
    /\ Len(polls) <= 1
    /\ polls # <<>> => isProcessing /\ (checking = NoCheck \/ checking.dropped)

\* a timer tick has come while a file is being processed, and checkFolder
\* is returning at its first test
C2_Witness ==
    /\ Len(polls) = 1
    /\ polls[1].pc = "processing"
    /\ checking.dropped
    /\ checking.origin = "timer"

\* C3: every file is handed to the per-file processor at most once over the
\* whole life of the system, restarts included.
C3_AtMostOnce ==
    [][\A k \in DOMAIN polls' :
          (/\ polls'[k].pc = "processing"
           /\ k \in DOMAIN polls => polls[k].i # polls'[k].i)
          => polls'[k].files[polls'[k].i] \notin handed]_vars

\* the step in which poll k leaves its loop: its last file has returned
LoopEnds(k) ==
    /\ k \in DOMAIN polls
    /\ polls[k].pc \in {"processing", "post"}
    /\ polls[k].i = Len(polls[k].files)
    /\ k \in DOMAIN polls'
    /\ polls'[k].pc = "saving"

\* C4: lastProcessedTime changes only in the step that ends a poll's loop
\* over its whole batch (or when a restart loads the persisted value); while
\* files of the batch are being processed it keeps its pre-cycle value.
C4_OnlyAfterBatch ==
    /\ [](\A k \in DOMAIN polls :
             polls[k].pc # "saving"
             => settings.lastProcessedTime = polls[k].lptAtStart)
    /\ [][settings'.lastProcessedTime # settings.lastProcessedTime
          => (\E k \in 1..MaxPolls : LoopEnds(k)) \/ Restart]_vars

\* a batch of two, one file failed and one processed, its loop over and
\* lastProcessedTime moved
C4_Witness ==
    \E k \in DOMAIN polls :
        /\ polls[k].pc = "saving"
        /\ Len(polls[k].files) = 2
        /\ "failed" \in Range(polls[k].results)
        /\ "ok" \in Range(polls[k].results)
        /\ settings.lastProcessedTime > polls[k].lptAtStart

\* C5: a matching file created while a poll cycle was processing is
\* eligible in a later poll: when the cycle has set lastProcessedTime, every
\* file of the folder stamped since the cycle listed the folder still passes
\* getMatchingFiles.
C5_NoFileLost ==
    \A k \in DOMAIN polls :
        polls[k].pc = "saving"
        => \A g \in Range(children) :
               (ctime[g] >= polls[k].listedAt
                   /\ RegexTest(settings.filePattern, FileName(g)))
               => IsEligible(settings, processedFiles, g)

\* C6: a failure of one file is contained: when the loop of a poll is over,
\* every file of its batch has been handed to the per-file processor and
\* has an outcome, whichever files failed.
C6_BatchCompletes ==
    \A k \in DOMAIN polls :
        polls[k].pc = "saving"
        => /\ polls[k].i = Len(polls[k].files)
           /\ Len(polls[k].results) = Len(polls[k].files)
           /\ \A j \in DOMAIN polls[k].files : polls[k].files[j] \in handed

\* a batch of two whose first file failed and whose second was processed
C6_Witness ==
    \E k \in DOMAIN polls :
        /\ polls[k].pc = "saving"
        /\ Len(polls[k].files) = 2
        /\ polls[k].results[1] \in {"failed", "postThrown"}
        /\ polls[k].results[2] = "ok"

\* C7: a poll processes only files newer than lastProcessedTime; when its
\* loop ends lastProcessedTime is greater than the creation time of every
\* file of the folder and of the batch, and getMatchingFiles is empty,
\* whether or not the processed files left the folder.
C7_AfterCycle ==
    /\ [](\A k \in DOMAIN polls : \A j \in DOMAIN polls[k].files :
             ctime[polls[k].files[j]] > polls[k].lptAtStart)
    /\ [][\A k \in 1..MaxPolls :
             LoopEnds(k)
             => /\ \A g \in Range(children') \cup Range(polls[k].files) :
                      ctime'[g] < settings'.lastProcessedTime
                /\ MatchingFrom(settings', processedFiles', children') = <<>>]_vars

\* the loop is over for a batch holding the newer file, still in the folder
\* beside an older matching file that was not in the batch
C7_Witness ==
    \E k \in DOMAIN polls : \E older, newer \in Range(children) :
        /\ polls[k].pc = "saving"
        /\ NameMatches(settings.filePattern, FileName(older))
        /\ ctime[older] <= polls[k].lptAtStart
        /\ older \notin Range(polls[k].files)
        /\ polls[k].files = <<newer>>
        /\ settings.lastProcessedTime > ctime[newer]
        /\ getMatchingFiles(settings, processedFiles) = <<>>

\* the monitor with the file pattern and the after-processing action left
\* as loaded
FairNext ==
    \/ \E f \in FileIds : CreateFile(f)
    \/ TimerTick
    \/ CheckNow
    \/ CheckFolderResume
    \/ PollStep
    \/ ToggleEnabled
    \/ \E value \in IntervalInputs : SetCheckInterval(value)
    \/ RestartMonitor
    \/ Restart

\* every awaited call of a poll settles and its continuation runs, however
\* often other handlers run in between (a checkFolder call that is returning
\* holds the event loop for its own turn only), and a checkFolder call
\* returns or resumes
FairSpec == Init /\ [][FairNext]_vars /\ SF_vars(PollStep) /\ WF_vars(CheckFolderResume)

\* C8: a poll that set isProcessing leaves it: isProcessing is false again
\* later, and in the step that ends processFiles, by return or by throw of
\* saveSettings, isProcessing becomes false with lastProcessedTime advanced
\* past its pre-cycle value to the clock read after the batch.
C8_PollingEnds ==
    /\ isProcessing ~> ~isProcessing
    /\ [][\A k \in 1..MaxPolls : \A ok \in BOOLEAN :
             SaveReturn(k, ok)
             => /\ ~isProcessing'
                /\ settings'.lastProcessedTime > polls[k].lptAtStart
                /\ settings'.lastProcessedTime >= polls[k].listedAt]_vars

\* a poll has ended by saveSettings throwing: nothing is in flight, the flag
\* is down and the time in memory is ahead of the persisted one
C8_Witness ==
    /\ ~isProcessing
    /\ polls = <<>>
    /\ intervalId # 0
    /\ settings.lastProcessedTime > loadSettings(persisted).lastProcessedTime

\* C9: stop() during a poll cancels the timer only: the poll in flight and
\* isProcessing are as before, the poll still runs through its whole batch
\* and advances lastProcessedTime, and no check comes from the timer while
\* intervalId is null.
C9_StopKeepsPoll ==
    /\ [][(ToggleEnabled /\ ~settings'.enabled)
          => /\ polls' = polls
             /\ isProcessing' = isProcessing
             /\ intervalId' = 0]_vars
    /\ [](\A k \in DOMAIN polls :
             (intervalId = 0 /\ polls[k].pc = "saving")
             => /\ polls[k].i = Len(polls[k].files)
                /\ settings.lastProcessedTime > polls[k].lptAtStart)
    /\ [](intervalId = 0 => timers = {})
    /\ [][(checking.origin # "timer" /\ checking'.origin = "timer")
          => intervalId # 0]_vars

\* a batch of two has finished its loop with the monitor disabled and
\* stopped: polls begin only while it is enabled, so stop() came during
\* the batch
C9_Witness ==
    \E k \in DOMAIN polls :
        /\ polls[k].pc = "saving"
        /\ Len(polls[k].files) = 2
        /\ intervalId = 0
        /\ ~settings.enabled

\* C10: every timer start() schedules has an interval of at least five
\* seconds.
C10_IntervalFloor == \A t \in timers : t.ms >= MinInterval * 1000

\* the files of poll p whose processPdfFile / processImageFile returned
Succeeded(p) == {j \in DOMAIN p.results : p.results[j] # "failed"}

\* C11: at the end of a batch the monitor reports how many files succeeded:
\* when processFiles shows its closing notice (saveSettings has returned),
\* the number in it is the number of files whose processing succeeded.
C11_ReportsSuccesses ==
    [][\A k \in DOMAIN polls :
          SaveReturn(k, TRUE)
          => ProcessedNotice(polls[k]) = Cardinality(Succeeded(polls[k]))]_vars

\* the blocks of the returned text that stand for trigger i
BlocksOf(i) == {b \in DOMAIN result.blocks : result.blocks[b].of = i}

\* the entries of the log where the external call of a trigger failed
FailedCalls ==
    {e \in DOMAIN calls : calls[e].ev = "return" /\ calls[e].outcome = "throws"}

\* C12: a trigger whose external call fails does not abort the rest: when
\* processTriggersInText has returned, the merged output holds a block for
\* the failed trigger and for every trigger emitted after it.
C12_FailureKeepsTheRest ==
    tpc = "done"
    => \A e \in FailedCalls :
          \A j \in calls[e].of..Len(triggers) : BlocksOf(j) # {}

\* the awaited calls are made one at a time, each returned before the
\* next starts, and for triggers in rising position
OneAtATime ==
    \A e \in DOMAIN calls :
        /\ calls[e].ev = (IF e % 2 = 1 THEN "call" ELSE "return")
        /\ e % 2 = 0 => calls[e].of = calls[e - 1].of /\ calls[e].fn = calls[e - 1].fn
        /\ e > 2 /\ e % 2 = 1 => calls[e].of > calls[e - 2].of

\* the collected blocks stand in the order of the triggers they are for
BlocksInOrder(blocks) ==
    \A a, b \in DOMAIN blocks : a < b => blocks[a].of < blocks[b].of

Dispatched ==
    {calls[e].of : e \in {x \in DOMAIN calls :
        calls[x].ev = "return" /\ calls[x].fn = "processTriggerWithGemini"}}

\* C14: every trigger sent down the generic path yields exactly one block,
\* a Results block or a Processing Failed placeholder: none is missing from
\* the merged output.
C14_OneBlockEach ==
    tpc = "done"
    => \A i \in Dispatched :
          /\ Cardinality(BlocksOf(i)) = 1
          /\ \A b \in BlocksOf(i) :
                result.blocks[b].kind \in {"Results", "Processing Failed"}

\* C15: the result of processTriggersInText starts with the unmodified
\* original document: it is the original document alone when no trigger
\* produced a block, and otherwise the original document followed by one
\* `## Triggered Actions` heading and the collected blocks.
C15_OriginalFirst ==
    tpc = "done"
    => /\ result.text = inputText
       /\ result.blocks = triggerResponses
       /\ Len(result.heading) = (IF result.blocks = <<>> THEN 0 ELSE 1)

\* C16: with the tasks integration enabled, every trigger whose action is
\* `tasks` goes to the task-filing pipeline and processTriggerWithGemini is
\* never called for it, also when the document has several such triggers,
\* when no task was filed, and when the table's keyword is not `Tasks`.
C16_TasksDiverted ==
    enableTasksIntegration
    => \A e \in DOMAIN calls :
          calls[e].fn = "processTriggerWithGemini"
          => triggers[calls[e].of].action.action # "tasks"

\* the position of the trigger addTasksToTasksNote was called for (0: none)
Filed ==
    LET at == {i \in DOMAIN triggers : IsTasksTrigger(triggers[i])}
    IN  IF at = {} \/ ~enableTasksIntegration THEN 0
        ELSE CHOOSE i \in at : \A j \in at : i <= j

\* C17: the number in the placeholder of a diverted tasks trigger is the
\* number of tasks written to the tasks note for that trigger, the value
\* addTasksToTasksNote returned, whatever the lines of its content.
C17_PlaceholderCount ==
    \A b \in DOMAIN triggerResponses :
        triggerResponses[b].kind = "tasks added"
        => triggerResponses[b].count =
              (IF triggerResponses[b].of = Filed THEN tasksAdded ELSE 0)

\* the underlined spans of the document that are `Translate to <word>` or
\* `Translate into <word>`, and the triggers that name a target language
TranslateSpans == SelectSeq(inputText.matches, LAMBDA m : translateMatch(m.underlined))
TranslateTriggers == SelectSeq(triggers, LAMBDA t : Len(t.trigger) = 3)

\* the spans that are not, and the triggers named by one word
GenericSpans == SelectSeq(inputText.matches, LAMBDA m : ~translateMatch(m.underlined))
GenericTriggers == SelectSeq(triggers, LAMBDA t : Len(t.trigger) <= 1)

\* trigger t is the translate trigger of span m
TranslateTriggerOf(t, m) ==
    /\ t.action.action = "translate"
    /\ m.underlined[3] \in Range(t.action.keyword)
    /\ m.underlined[3] \in Range(t.trigger)
    /\ t.content = m.content

\* C18, as claimed: every `Translate to|into <word>` span yields exactly one
\* trigger, with action `translate` and the target language in its keyword,
\* whatever the table's translate entry looks like, and is never matched
\* through its first word as well.
C18_TranslateOne ==
    tpc # "called"
    => /\ Len(TranslateTriggers) = Len(TranslateSpans)
       /\ \A k \in DOMAIN TranslateTriggers :
             TranslateTriggerOf(TranslateTriggers[k], TranslateSpans[k])
       /\ Len(triggers) <= Len(inputText.matches)

\* the table has an enabled entry whose action is `translate`
TranslateEnabled == \E k \in DOMAIN triggerActions :
                        triggerActions[k].action = "translate" /\ triggerActions[k].enabled

\* C18, amended: such a span yields exactly one translate trigger with the
\* target language in its keyword when the table has an enabled translate
\* entry, whatever that entry's keyword, and no trigger at all when it has
\* none; it is never matched through its first word.
C18_TranslateOneIfEnabled ==
    tpc # "called"
    => /\ Len(TranslateTriggers) = (IF TranslateEnabled THEN Len(TranslateSpans) ELSE 0)
       /\ \A k \in DOMAIN TranslateTriggers :
             TranslateTriggerOf(TranslateTriggers[k], TranslateSpans[k])
       /\ Len(triggers) = Len(TranslateTriggers) + Len(GenericTriggers)
       /\ Len(GenericTriggers) <= Len(GenericSpans)

\* `translate INTO French` was scanned under a table whose translate entry
\* has the keyword `TRANSLATE`, next to a span that is no translate pattern
C18_Witness ==
    /\ tpc # "called"
    /\ Len(TranslateSpans) = 1
    /\ Len(inputText.matches) = 2
    /\ TranslateSpans[1].underlined = <<"translate", "INTO", "French">>
    /\ \E k \in DOMAIN triggerActions : triggerActions[k].keyword = <<"TRANSLATE">>
    /\ Len(TranslateTriggers) = 1

\* span m has an enabled table entry for its first word, ignoring case
HasEntry(m) ==
    \E k \in DOMAIN triggerActions :
        /\ triggerActions[k].enabled
        /\ m.underlined # <<>>
        /\ Len(triggerActions[k].keyword) = 1
        /\ toLowerCase(triggerActions[k].keyword[1]) = toLowerCase(m.underlined[1])

\* C19: a span that is no translate pattern yields a trigger if and only if
\* its first word equals, ignoring case, the keyword of an enabled table
\* entry; other spans are dropped, and the triggers keep the order of their
\* spans in the text.
C19_FirstWordMatch ==
    LET emitting == SelectSeq(GenericSpans, HasEntry)
    IN  tpc # "called"
        => /\ Len(GenericTriggers) = Len(emitting)
           /\ \A k \in DOMAIN GenericTriggers :
                 /\ GenericTriggers[k].trigger = <<emitting[k].underlined[1]>>
                 /\ GenericTriggers[k].content = emitting[k].content
                 /\ GenericTriggers[k].action.enabled
                 /\ LowerPhrase(GenericTriggers[k].action.keyword)
                        = <<toLowerCase(emitting[k].underlined[1])>>

\* `Notes`, which has no entry, and `research Notes` were scanned under the
\* default table, whose keyword is `Research`: one trigger came out
C19_Witness ==
    /\ tpc # "called"
    /\ Len(inputText.matches) = 2
    /\ inputText.matches[1].underlined = <<"Notes">>
    /\ inputText.matches[2].underlined = <<"research", "Notes">>
    /\ triggerActions = DEFAULT_TRIGGER_ACTIONS
    /\ Len(triggers) = 1
    /\ triggers[1].action.keyword = <<"Research">>

\* a priority marker is left at the start of the text
ResidualPriority(text) == text # <<>> /\ Head(text) = "!"

\* a date-role marker is left in the text
ResidualDateMarker(text) ==
    \E k \in 1..(Len(text) - 1) :
        toLowerCase(text[k]) \in {"due", "scheduled", "start"} /\ text[k + 1] = ":"

\* a hashtag is left in the text
ResidualTag(text) == tagMatches(text) # <<>>

\* C20: the text of every task record parseTasksForObsidianTasks produces
\* has no residual priority marker (!, !!, !!!), no date-role marker (DUE:,
\* SCHEDULED:, START:) and no #hashtag.
C20_NothingResidual ==
    \A k \in DOMAIN parsed.tasks :
        /\ ~ResidualPriority(parsed.tasks[k].text)
        /\ ~ResidualDateMarker(parsed.tasks[k].text)
        /\ ~ResidualTag(parsed.tasks[k].text)

\* text holds the atoms of part, side by side and in their order
Contains(text, part) ==
    \E k \in 0..(Len(text) - Len(part)) : SubSeq(text, k + 1, k + Len(part)) = part

\* the date blocks of the two task code paths of src/main.ts, in their order
DateBlocks ==
    << [role |-> "due",       words |-> {"by", "due"},               others |-> {"scheduled", "start"}],
       [role |-> "scheduled", words |-> {"scheduled", "on"},         others |-> {"due", "start"}],
       [role |-> "start",     words |-> {"start", "begin", "starting"}, others |-> {"due", "scheduled"}] >>

\* the code path that produced `parsed` reads its line through processExtractedTasks
ByExtracted == parsed.by = "processExtractedTasks"

\* the task text and dates of the line of tasksContent before any date block
BeforeDates ==
    IF ByExtracted
    THEN NoDates(extractPriority(lineTaskText(trim(tasksContent[1]),
                                              checkboxMatch(trim(tasksContent[1])))))
    ELSE NoDates(extractPriority(RemoveBullet(trim(tasksContent[1]))))

\* the block b applied to the task t
AfterBlock(t, b) ==
    IF ByExtracted THEN extractedDate(t, DateBlocks[b].role, DateBlocks[b].others)
    ELSE extractDate(t, DateBlocks[b].role, DateBlocks[b].words)

\* the task as it enters the date block b
Entering(b) ==
    CASE b = 1 -> BeforeDates
      [] b = 2 -> AfterBlock(BeforeDates, 1)
      [] b = 3 -> AfterBlock(AfterBlock(BeforeDates, 1), 2)

\* what the expression of block b matches in the task that enters it
BlockMatch(b) ==
    IF ByExtracted
    THEN ExtractedMatch(Entering(b).taskText, DateBlocks[b].role, DateBlocks[b].others)
    ELSE DateMatch(Entering(b).taskText, DateBlocks[b].words)

\* block b found a marker whose phrase parseNaturalDate cannot read
Unparsed(b) == BlockMatch(b) # <<>> /\ parseNaturalDate(BlockMatch(b)[1].group) = <<>>

\* the marker and phrase block b matched, as written
Written(b) == trim(SubSeq(Entering(b).taskText, BlockMatch(b)[1].from, BlockMatch(b)[1].to))

\* C21: when the phrase after a date marker cannot be parsed, the task has no
\* date for that role and its text still holds the marker and the phrase as
\* written; a role has a date only when its phrase was parsed.  On both task
\* code paths of src/main.ts.
C21_UnparsedKept ==
    parsed.by \in {"src/main.ts", "processExtractedTasks"} =>
        \A b \in DOMAIN DateBlocks :
            /\ Unparsed(b) =>
                  /\ parsed.tasks # <<>>
                  /\ \A j \in DOMAIN parsed.tasks :
                        /\ DateBlocks[b].role \notin DOMAIN parsed.tasks[j].dates
                        /\ Contains(parsed.tasks[j].text, Written(b))
            /\ \A j \in DOMAIN parsed.tasks :
                  DateBlocks[b].role \in DOMAIN parsed.tasks[j].dates =>
                      BlockMatch(b) # <<>> /\ ~Unparsed(b)

\* parseNaturalDate has returned from a call with `next <weekday>`
NextWeekdayCall ==
    /\ dateReturned # NotCalled
    /\ Len(dateArgument) = 3
    /\ dateArgument[1] = "next"
    /\ dateArgument[3] \in Weekdays

\* C22: for every weekday W and every day D, parseNaturalDate('next W') on D
\* returns a date after D whose weekday is W, at most a week away; when D is
\* itself a W the date is D + 7 days.  In both versions.
C22_NextWeekday ==
    NextWeekdayCall =>
        \E r \in (today + 1)..(today + 7) :
            /\ dateReturned.date = format(r)
            /\ r % 7 = indexOf(dateArgument[3])
            /\ (today % 7 = indexOf(dateArgument[3]) => r = today + 7)

\* `next monday` on Monday 2024-03-11 has given 2024-03-18
C22_Witness ==
    /\ NextWeekdayCall
    /\ dateArgument[3] = "monday"
    /\ format(today) = <<2024, 3, 11>>
    /\ dateReturned.date = <<2024, 3, 18>>

\* the field order of a formatted task line
FieldOrder == <<"checkbox", "priority", "text", "due", "scheduled", "start", "created", "tags">>

\* where a field stands in FieldOrder
Rank(name) == CHOOSE k \in DOMAIN FieldOrder : FieldOrder[k] = name

\* the fields of the line are in the order of FieldOrder, with the checkbox,
\* the text and the creation stamp among them
InFieldOrder(line) ==
    /\ \A i, j \in DOMAIN line : i < j => Rank(line[i].field) < Rank(line[j].field)
    /\ {"checkbox", "text", "created"} \subseteq {line[i].field : i \in DOMAIN line}

\* C23: every formatted task line has its fields in one fixed order, on every
\* formatting code path: checkbox, priority glyph (exactly when priorities
\* are shown and the task has one), text, due, scheduled, start, creation
\* stamp, tags.
C23_FixedFieldOrder ==
    \A j \in DOMAIN formattedTasks :
        /\ InFieldOrder(formattedTasks[j])
        /\ (\E i \in DOMAIN formattedTasks[j] : formattedTasks[j][i].field = "priority")
               <=> (taskPriorities /\ parsed.tasks[j].priority # "")

\* the dedup set gains a file only in the step that brings a poll to the
\* post-action of that file, and loses files only at a restart
AddedBeforePost ==
    [][processedFiles' # processedFiles
       => \/ Restart
          \/ \E k \in DOMAIN polls' :
                /\ polls'[k].pc = "post"
                /\ polls[k].pc = "processing"
                /\ processedFiles' = processedFiles \cup {polls'[k].files[polls'[k].i]}]_vars

\* handleProcessedFile runs for a file that is in the dedup set
InSetAtPost ==
    \A k \in DOMAIN polls :
        polls[k].pc = "post" => polls[k].files[polls[k].i] \in processedFiles

\* C24: each file is added to the dedup set immediately before its
\* post-action runs, so the file is in the set when handleProcessedFile
\* starts for it, and every file the cycle attempted is in the set when the
\* cycle ends.
C24_DedupBeforePost ==
    /\ AddedBeforePost
    /\ []InSetAtPost
    /\ [](\A k \in DOMAIN polls :
             polls[k].pc = "saving"
             => \A j \in DOMAIN polls[k].files : polls[k].files[j] \in processedFiles)

\* C24 as the code has it: at the end of the cycle the dedup set holds the
\* files of the batch whose processing returned, and not those whose
\* processing threw.
C24_DedupBeforePostIfProcessed ==
    /\ AddedBeforePost
    /\ []InSetAtPost
    /\ [](\A k \in DOMAIN polls :
             polls[k].pc = "saving"
             => \A j \in DOMAIN polls[k].files :
                    polls[k].files[j] \in processedFiles <=> polls[k].results[j] # "failed")

\* a cycle over two files has ended, one processed and in the dedup set, the
\* other failed and not in it
C24_Witness ==
    \E k \in DOMAIN polls :
        /\ polls[k].pc = "saving"
        /\ polls[k].results = <<"failed", "ok">>
        /\ polls[k].files[1] \notin processedFiles
        /\ polls[k].files[2] \in processedFiles

\* where file f stands in folder.children
PlaceOf(f) == CHOOSE n \in DOMAIN children : children[n] = f

\* a poll begins in this step, and its batch is in folder-listing order
BatchInListingOrder ==
    Len(polls') > Len(polls)
    => LET files == polls'[Len(polls')].files
       IN  /\ \A j \in DOMAIN files : files[j] \in Range(children)
           /\ \A a, b \in DOMAIN files : a < b => PlaceOf(files[a]) < PlaceOf(files[b])

\* poll k goes on to another file in this step: the next of its batch, when
\* the file before has its outcome
OneFileOn(k) ==
    (k \in DOMAIN polls /\ k \in DOMAIN polls' /\ polls'[k].files = polls[k].files
        /\ polls'[k].i # polls[k].i)
    => /\ polls'[k].i = polls[k].i + 1
       /\ polls'[k].pc = "processing"
       /\ Len(polls'[k].results) = polls[k].i

\* C25: within a poll cycle files are processed one at a time in
\* folder-listing order: file i+1 is begun only when the processing and the
\* post-action of file i have returned or thrown.
C25_OneAtATimeInOrder ==
    /\ [][BatchInListingOrder /\ \A k \in 1..MaxPolls : OneFileOn(k)]_vars
    /\ [](Len(polls) <= 1)
    /\ [](\A k \in DOMAIN polls :
             /\ polls[k].pc \in {"processing", "post"} => Len(polls[k].results) = polls[k].i - 1
             /\ polls[k].pc \in {"delay", "saving"} => Len(polls[k].results) = polls[k].i
             /\ \A j \in DOMAIN polls[k].files : j <= polls[k].i => polls[k].files[j] \in handed)

\* the second of two files is being processed after the first one failed
C25_Witness ==
    \E k \in DOMAIN polls :
        /\ Len(polls[k].files) = 2
        /\ polls[k].i = 2
        /\ polls[k].pc = "processing"
        /\ polls[k].results = <<"failed">>

\* ------------------------------------------------------------------------ C26
\* the call of checkFolder in hand found no folder under settings.watchFolder
FoundNoFolder == checking # NoCheck /\ checking.noFolder

\* C26: a poll whose watch folder does not exist is a no-op and not an error:
\* a call of checkFolder that is not dropped at the isProcessing test returns
\* at the folder test exactly when the folder is missing; it then returns
\* leaving the settings (lastProcessedTime among them), the saved data, the
\* dedup set, the isProcessing flag, the polls and the timer as they were; no
\* poll begins while the folder is missing. The timer being left set, its
\* next tick calls checkFolder again.
C26_MissingFolderNoOp ==
    /\ [](checking # NoCheck /\ ~checking.dropped
            => (checking.noFolder <=> ~folderExists))
    /\ [][FoundNoFolder
            => /\ checking' = NoCheck
               /\ UNCHANGED <<settings, persisted, processedFiles, isProcessing,
                              intervalId, timers, polls, handed>>]_vars
    /\ [][Len(polls') > Len(polls) => folderExists]_vars

\* a tick of the timer has found the watch folder missing while a file
\* created before the folder went away waits in it
C26_Witness ==
    /\ FoundNoFolder
    /\ checking.origin = "timer"
    /\ timers # {}
    /\ \E f \in FileIds : ctime[f] > settings.lastProcessedTime /\ f \notin processedFiles

FailedOf(k) ==
    {polls[k].files[j] : j \in {n \in DOMAIN polls[k].results : polls[k].results[n] = "failed"}}

\* the cycle of poll k ends in this step
CycleEnds(k) == \E ok \in BOOLEAN : SaveReturn(k, ok)

\* when a cycle ends, none of its failed files is in the dedup set and
\* lastProcessedTime exceeds the creation time of each
FailedIneligibleInSession ==
    [][\A k \in 1..MaxPolls :
          CycleEnds(k)
          => \A f \in FailedOf(k) :
                 /\ f \notin processedFiles'
                 /\ settings'.lastProcessedTime > ctime[f]]_vars

\* C28: a file whose processing fails during a poll cycle is not added to
\* the dedup set, yet it is never attempted again: once that cycle ends
\* lastProcessedTime exceeds the file's creation time, in the session and in
\* what a restart would load, so the file is ineligible in every later poll
\* of the session and after a restart.
C28_FailedNeverAgain ==
    [][\A k \in 1..MaxPolls :
          CycleEnds(k)
          => \A f \in FailedOf(k) :
                 /\ f \notin processedFiles'
                 /\ settings'.lastProcessedTime > ctime[f]
                 /\ loadSettings(persisted').lastProcessedTime > ctime[f]]_vars

\* ------------------------------------------------------------------------ C29
\* the call of checkFolder in hand found no eligible file
FoundNoFiles == checking # NoCheck /\ ~checking.dropped /\ checking.files = <<>>

\* C29: a poll that finds no eligible files changes nothing: it does not set
\* isProcessing, does not advance lastProcessedTime, does not touch the dedup
\* set and does not save settings. Over the life of a monitor (a restart
\* builds a new one and loads its settings anew) lastProcessedTime never
\* decreases and changes only in the step that ends the loop of a cycle over
\* at least one file, and the dedup set only grows.
C29_EmptyPollNoOp ==
    /\ [][FoundNoFiles
            => UNCHANGED <<isProcessing, settings, processedFiles, persisted, polls,
                           handed, intervalId, timers>>]_vars
    /\ [][Restart \/ settings'.lastProcessedTime >= settings.lastProcessedTime]_vars
    /\ [][settings'.lastProcessedTime # settings.lastProcessedTime
            => \/ Restart
               \/ \E k \in 1..MaxPolls : LoopEnds(k) /\ Len(polls[k].files) >= 1]_vars
    /\ [][Restart \/ processedFiles \subseteq processedFiles']_vars

\* a poll finds nothing eligible in a folder that holds a file: an earlier
\* cycle has advanced lastProcessedTime past it and recorded it
C29_Witness ==
    /\ FoundNoFiles
    /\ folderExists
    /\ \E f \in Range(children) :
           /\ f \in processedFiles
           /\ NameMatches(settings.filePattern, FileName(f))
           /\ settings.lastProcessedTime > ctime[f]

\* ------------------------------------------------------------------------ C30
\* the files among the first n of poll p whose processing returned
Processed(p, n) ==
    {j \in 1..n : j \in DOMAIN p.results /\ p.results[j] \in {"ok", "postThrown"}}

\* poll p is bound to a notebook with a current page, auto-increment on
Paged(p) == p.notebook # 0 /\ p.pageNumbers[1] # 0 /\ settings.autoIncrementPages

\* C30: in a monitored batch bound to a notebook with auto-increment on, the
\* first file is handed the notebook's current page; every file is handed
\* the starting page plus the number of files before it whose processing
\* returned, so the processed files get consecutive page numbers and the
\* file after one that failed gets the failed file's number; and when the
\* loop is over notebook.currentPage is the starting page plus the number
\* of files whose processing returned.
C30_ConsecutivePages ==
    /\ [][\A k \in DOMAIN polls' :
             k \notin DOMAIN polls
             => polls'[k].pageNumbers
                    = <<currentPageOf(settings, findNotebook(settings))>>]_vars
    /\ [](\A k \in DOMAIN polls :
             Paged(polls[k])
             => /\ Len(polls[k].pageNumbers) = polls[k].i
                /\ \A j \in DOMAIN polls[k].pageNumbers :
                       polls[k].pageNumbers[j]
                           = polls[k].pageNumbers[1]
                               + Cardinality(Processed(polls[k], j - 1))
                /\ polls[k].pc = "saving"
                      => settings.notebooks[polls[k].notebook].currentPage
                             = polls[k].pageNumbers[1]
                                 + Cardinality(Processed(polls[k], Len(polls[k].files))))

\* a batch of two files on the notebook at page 2 is over: the first file
\* failed, the second was handed page 2 as well, and the notebook is at 3
C30_Witness ==
    \E k \in DOMAIN polls :
        /\ Paged(polls[k])
        /\ polls[k].pc = "saving"
        /\ polls[k].results = <<"failed", "ok">>
        /\ polls[k].pageNumbers = <<2, 2>>
        /\ settings.notebooks[polls[k].notebook].currentPage = 3

=============================================================================
